---- MODULE Spec2Model ----
(***************************************************************************)
(* A model of github.com/xlab/at: the SMS PDU codec (packages sms, pdu),  *)
(* the option tables and the Device with its modem (package at).          *)
(*                                                                         *)
(* Octets are integers 0..255.  A Go string is the sequence of its code    *)
(* points (runes); len(string) is the number of UTF-8 bytes (Utf8Len).     *)
(* A Go error is a string: "nil" for no error, the name of the error       *)
(* variable otherwise, "panic" for a run-time panic.                       *)
(***************************************************************************)
EXTENDS Integers, Sequences, FiniteSets, TLC

VARIABLES orig, s, t, octets, n, err, ops, device, modem, pc

vars == <<orig, s, t, octets, n, err, ops, device, modem, pc>>

\* the variables of the codec: a caller's values
codec == <<orig, s, t, octets, n, err, ops>>

\* the variables of a modem in use: the Device, the modem behind its ports
\* and the goroutines that run on the Device
modemVars == <<device, modem, pc>>

\* a port that is nil: no file
NilFile == [nil |-> TRUE, open |-> FALSE, closes |-> 0]

\* the Device before Open: no port, no channel, no profile
ZeroDevice ==
    [active |-> FALSE, closed |-> "nil", cmdPort |-> NilFile, notifyPort |-> NilFile,
     messages |-> << >>, Commands |-> "nil"]

\* no modem is in use
NoDevice ==
    /\ device = ZeroDevice
    /\ modem = << >>
    /\ pc = << >>

\* ------------------------------------------------------------------------
\* Bounds of the model
\* ------------------------------------------------------------------------

\* longest message text (in characters) the inputs are drawn with
MaxTextLen == 2

\* ------------------------------------------------------------------------
\* Bytes and bits
\* ------------------------------------------------------------------------

RECURSIVE Pow2(_)
Pow2(i) == IF i = 0 THEN 1 ELSE 2 * Pow2(i - 1)

\* bit i of octet b:  b >> i & 0x01
Bit(b, i) == (b \div Pow2(i)) % 2

\* b | (1 << i)
SetBit(b, i) == IF Bit(b, i) = 1 THEN b ELSE b + Pow2(i)

\* b &^ (1 << i)
ClearBit(b, i) == IF Bit(b, i) = 1 THEN b - Pow2(i) ELSE b

\* the value of a little-endian bit sequence
RECURSIVE BitsValue(_)
BitsValue(bits) ==
    IF Len(bits) = 0 THEN 0 ELSE bits[1] + 2 * BitsValue(Tail(bits))

\* a | b of two octets
BitOr(a, b) == BitsValue([i \in 1..8 |-> IF Bit(a, i - 1) = 1 \/ Bit(b, i - 1) = 1 THEN 1 ELSE 0])

\* byte(x): conversion of a non-negative integer to a byte
Byte(x) == x % 256

Min(a, b) == IF a < b THEN a ELSE b

\* s[from+1 ..] of a Go slice, i.e. the slice without its first k elements
Drop(sq, k) == IF k >= Len(sq) THEN <<>> ELSE SubSeq(sq, k + 1, Len(sq))

\* s[:k] of a Go slice
Take(sq, k) == SubSeq(sq, 1, Min(k, Len(sq)))

\* ------------------------------------------------------------------------
\* pdu/semi_octet.go
\* ------------------------------------------------------------------------

Swap(octet) == ((octet % 16) * 16) + (octet \div 16)

Encode(value) ==
    LET lo == value % 10
        hi == (value % 100) \div 10
    IN  Byte(hi * 16) + lo

Decode(octet) ==
    LET lo == octet % 16
        hi == octet \div 16
    IN  hi * 10 + lo

\* pairs of digits to octets, the first digit in the low nibble; an odd
\* last digit gets 0xF in the high nibble (second loop of EncodeSemi)
RECURSIVE PackDigits(_)
PackDigits(digits) ==
    IF Len(digits) = 0 THEN <<>>
    ELSE IF Len(digits) < 2 THEN << 240 + digits[1] >>
    ELSE << Byte(digits[2] * 16) + digits[1] >> \o PackDigits(Drop(digits, 2))

\* EncodeSemi of ONE chunk.  The uint64 chunk is given by its decimal digits
\* without leading zeros (<<>> is the number 0): the first loop of EncodeSemi
\* puts a 0 in front of a number below 10 and then the digits of the number.
EncodeSemi(number) ==
    LET digits == IF Len(number) < 2 THEN <<0>> \o number ELSE number
    IN  PackDigits(digits)

\* fmt.Sprintf("%d", v) for a nibble v in 0..15, as code points
Sprintd(v) == IF v < 10 THEN << 48 + v >> ELSE << 49, 48 + (v - 10) >>

RECURSIVE DecodeSemiAddress(_)
DecodeSemiAddress(octs) ==
    IF Len(octs) = 0 THEN <<>>
    ELSE LET oct  == octs[1]
             half == oct \div 16
         IN  IF half = 15 THEN Sprintd(oct % 16)
             ELSE Sprintd(oct % 16) \o Sprintd(half) \o DecodeSemiAddress(Drop(octs, 1))

\* ------------------------------------------------------------------------
\* pdu/7bit.go: GSM 7-bit default alphabet (GSM TS 03.38) and septet packing
\* ------------------------------------------------------------------------

\* the escape septet (single shift) and the carriage-return septet
Esc == 27
CR == 13

\* code points of the septets 0x00..0x1F of the default alphabet
Gsm7Low ==
    << 64, 163, 36, 165, 232, 233, 249, 236, 242, 199, 10, 216, 248, 13, 197, 229,
       916, 95, 934, 915, 923, 937, 928, 936, 931, 920, 926, 27, 198, 230, 223, 201 >>

\* the default alphabet: septet -> code point
Gsm7Rune(sep) ==
    CASE sep < 32   -> Gsm7Low[sep + 1]
      [] sep = 36   -> 164
      [] sep = 64   -> 161
      [] sep = 91   -> 196
      [] sep = 92   -> 214
      [] sep = 93   -> 209
      [] sep = 94   -> 220
      [] sep = 95   -> 167
      [] sep = 96   -> 191
      [] sep = 123  -> 228
      [] sep = 124  -> 246
      [] sep = 125  -> 241
      [] sep = 126  -> 252
      [] sep = 127  -> 224
      [] OTHER      -> sep

\* the default extension table: septet after ESC -> code point
\* (form feed, ^, {, }, \, [, ~, ], |, euro sign)
Gsm7ExtSeptets == {10, 20, 40, 41, 47, 60, 61, 62, 64, 101}

Gsm7ExtRune(sep) ==
    CASE sep = 10  -> 12
      [] sep = 20  -> 94
      [] sep = 40  -> 123
      [] sep = 41  -> 125
      [] sep = 47  -> 92
      [] sep = 60  -> 91
      [] sep = 61  -> 126
      [] sep = 62  -> 93
      [] sep = 64  -> 124
      [] sep = 101 -> 8364
      [] OTHER     -> 63

\* true iff the code point has a mapping in either table
Is7BitEncodable(r) ==
    \/ \E sep \in 0..127 : sep # Esc /\ Gsm7Rune(sep) = r
    \/ \E sep \in Gsm7ExtSeptets : Gsm7ExtRune(sep) = r

\* code point -> its septet or ESC pair; an unmappable code point becomes '?'
Gsm7Septets(r) ==
    IF \E sep \in 0..127 : sep # Esc /\ Gsm7Rune(sep) = r
    THEN << CHOOSE sep \in 0..127 : sep # Esc /\ Gsm7Rune(sep) = r >>
    ELSE IF \E sep \in Gsm7ExtSeptets : Gsm7ExtRune(sep) = r
    THEN << Esc, CHOOSE sep \in Gsm7ExtSeptets : Gsm7ExtRune(sep) = r >>
    ELSE << 63 >>

RECURSIVE Translate7(_)
Translate7(str) ==
    IF Len(str) = 0 THEN <<>> ELSE Gsm7Septets(str[1]) \o Translate7(Drop(str, 1))

\* the little-endian bit stream of a sequence of w-bit values
RECURSIVE BitStream(_, _)
BitStream(vals, w) ==
    IF Len(vals) = 0 THEN <<>>
    ELSE [i \in 1..w |-> Bit(vals[1], i - 1)] \o BitStream(Drop(vals, 1), w)

\* groups of w bits to values; a trailing group shorter than w is zero-filled
\* when fill is TRUE and dropped otherwise
RECURSIVE Regroup(_, _, _)
Regroup(bits, w, fill) ==
    IF Len(bits) = 0 THEN <<>>
    ELSE IF Len(bits) < w THEN (IF fill THEN << BitsValue(bits) >> ELSE <<>>)
    ELSE << BitsValue(Take(bits, w)) >> \o Regroup(Drop(bits, w), w, fill)

\* pack7Bit: septets to octets.  Seven spare bits in the last octet are
\* filled with a CR septet; a text ending in CR on an octet boundary gets one
\* more CR, so that the receiver does not take the CR for padding.
pack7Bit(raw7) ==
    LET k == Len(raw7)
        padded == IF k % 8 = 7 THEN raw7 \o << CR >>
                  ELSE IF k > 0 /\ k % 8 = 0 /\ raw7[k] = CR THEN raw7 \o << CR >>
                  ELSE raw7
    IN  Regroup(BitStream(padded, 7), 8, TRUE)

\* unpack7Bit: octets to septets, the reverse of pack7Bit
unpack7Bit(pack7) ==
    LET raw7 == Regroup(BitStream(pack7, 8), 7, FALSE)
        k == Len(raw7)
    IN  IF k > 0 /\ k % 8 = 0 /\ raw7[k] = CR THEN Take(raw7, k - 1)
        ELSE IF k > 1 /\ k % 8 = 1 /\ raw7[k] = CR /\ raw7[k - 1] = CR THEN Take(raw7, k - 1)
        ELSE raw7

\* septets to code points, tracking the ESC state
RECURSIVE Untranslate7(_)
Untranslate7(raw7) ==
    IF Len(raw7) = 0 THEN <<>>
    ELSE IF raw7[1] = Esc
    THEN IF Len(raw7) = 1 THEN << 63 >>
         ELSE << Gsm7ExtRune(raw7[2]) >> \o Untranslate7(Drop(raw7, 2))
    ELSE << Gsm7Rune(raw7[1]) >> \o Untranslate7(Drop(raw7, 1))

Encode7Bit(str) == pack7Bit(Translate7(str))

\* Decode7Bit never fails: translation substitutes '?'
Decode7Bit(octs) == [str |-> Untranslate7(unpack7Bit(octs)), err |-> "nil"]

\* ------------------------------------------------------------------------
\* pdu/ucs2.go
\* ------------------------------------------------------------------------

\* one unit for every code point, the high bits dropped
Utf16UnitsTruncated(r) == << r % 65536 >>

\* utf16.Encode of one code point
Utf16Units(r) ==
    IF r >= 65536 /\ r <= 1114111
    THEN << 55296 + ((r - 65536) \div 1024), 56320 + ((r - 65536) % 1024) >>
    ELSE IF (r >= 55296 /\ r <= 57343) \/ r > 1114111 THEN << 65533 >>
    ELSE << r >>

RECURSIVE EncodeUcs2(_)
EncodeUcs2(str) ==
    IF Len(str) = 0 THEN <<>>
    ELSE LET u == Utf16Units(str[1])
         IN  (IF Len(u) = 2
              THEN << u[1] \div 256, u[1] % 256, u[2] \div 256, u[2] % 256 >>
              ELSE << u[1] \div 256, u[1] % 256 >>) \o EncodeUcs2(Drop(str, 1))

\* utf16.Decode
RECURSIVE Utf16Decode(_)
Utf16Decode(buf) ==
    IF Len(buf) = 0 THEN <<>>
    ELSE LET u == buf[1]
         IN  IF u >= 55296 /\ u <= 56319 /\ Len(buf) > 1 /\ buf[2] >= 56320 /\ buf[2] <= 57343
             THEN << 65536 + (u - 55296) * 1024 + (buf[2] - 56320) >> \o Utf16Decode(Drop(buf, 2))
             ELSE IF u >= 55296 /\ u <= 57343
             THEN << 65533 >> \o Utf16Decode(Drop(buf, 1))
             ELSE << u >> \o Utf16Decode(Drop(buf, 1))

DecodeUcs2(octs, startsWithHeader) ==
    LET octetsLng == Len(octs)
        headerLng == IF startsWithHeader /\ octetsLng > 0 THEN octs[1] + 1 ELSE 0
        lng       == octetsLng - headerLng
        body      == Drop(octs, headerLng)
    IN  IF octetsLng = 0 THEN [str |-> <<>>, err |-> "ErrIncorrectDataLength"]
        ELSE IF startsWithHeader /\ lng <= 0 THEN [str |-> <<>>, err |-> "ErrIncorrectDataLength"]
        ELSE IF lng % 2 # 0 THEN [str |-> <<>>, err |-> "ErrUnevenNumber"]
        ELSE [str |-> Utf16Decode([i \in 1..(lng \div 2) |-> body[2 * i - 1] * 256 + body[2 * i]]),
              err |-> "nil"]

\* ------------------------------------------------------------------------
\* Go strings
\* ------------------------------------------------------------------------

\* number of UTF-8 bytes of a code point
Utf8Len(r) == IF r < 128 THEN 1 ELSE IF r < 2048 THEN 2 ELSE IF r < 65536 THEN 3 ELSE 4

\* len(str) of a Go string: its number of bytes
RECURSIVE ByteLen(_)
ByteLen(str) == IF Len(str) = 0 THEN 0 ELSE Utf8Len(str[1]) + ByteLen(Drop(str, 1))

\* ------------------------------------------------------------------------
\* sms/phone_number.go
\* ------------------------------------------------------------------------

PhoneNumberTypes ==
    [ Unknown |-> 0, International |-> 16, National |-> 32, NetworkSpecific |-> 48,
      Subscriber |-> 64, Alphanumeric |-> 80, Abbreviated |-> 96, Reserved |-> 112 ]

NumberingPlans == [ Unknown |-> 0, E164 |-> 1 ]

IsDigit(r) == r >= 48 /\ r <= 57

HasPlusPrefix(p) == Len(p) > 0 /\ p[1] = 43

RECURSIVE StripZeros(_)
StripZeros(digits) ==
    IF Len(digits) > 0 /\ digits[1] = 0 THEN StripZeros(Drop(digits, 1)) ELSE digits

\* the decimal digits of math.MaxUint64
MaxUint64Digits == << 1, 8, 4, 4, 6, 7, 4, 4, 0, 7, 3, 7, 0, 9, 5, 5, 1, 6, 1, 5 >>

\* a < b for digit sequences of the same length
RECURSIVE DigitsLess(_, _)
DigitsLess(a, b) ==
    IF Len(a) = 0 THEN FALSE
    ELSE IF a[1] # b[1] THEN a[1] < b[1]
    ELSE DigitsLess(Drop(a, 1), Drop(b, 1))

\* strconv.ParseUint(str, 10, 64) of a string of decimal digits.  The value
\* is given by its decimal digits without leading zeros.
ParseUint(str) ==
    LET digits == StripZeros([i \in 1..Len(str) |-> str[i] - 48])
    IN  IF Len(str) = 0 THEN [number |-> <<>>, err |-> "ErrSyntax"]
        ELSE IF Len(digits) > 20 \/ (Len(digits) = 20 /\ DigitsLess(MaxUint64Digits, digits))
        THEN [number |-> <<>>, err |-> "ErrRange"]
        ELSE [number |-> digits, err |-> "nil"]

\* PhoneNumber.Type
PhoneNumberType(p) ==
    LET typ == IF HasPlusPrefix(p) THEN PhoneNumberTypes.International
               ELSE PhoneNumberTypes.National
    IN  128 + typ + NumberingPlans.E164

\* PhoneNumber.PDU: the number of digits and the type octet followed by the
\* semi-octets of the number
PhoneNumberPDU(p) ==
    LET digitStr == IF HasPlusPrefix(p) THEN Drop(p, 1) ELSE p
        str      == SelectSeq(digitStr, IsDigit)
        parsed   == ParseUint(str)
    IN  IF parsed.err # "nil" THEN [n |-> 0, octets |-> <<>>, err |-> parsed.err]
        ELSE [n |-> Len(str),
              octets |-> << PhoneNumberType(p) >> \o EncodeSemi(parsed.number),
              err |-> "nil"]

\* PhoneNumber.ReadFrom: p is the receiver's value before the call
PhoneNumberReadFrom(p, octs) ==
    IF Len(octs) < 1 THEN [p |-> p, err |-> "ErrIncorrectSize"]
    ELSE LET typ == ((octs[1] \div 16) % 8) * 16
         IN  CASE typ = PhoneNumberTypes.Alphanumeric ->
                    [p |-> Decode7Bit(Drop(octs, 1)).str, err |-> "nil"]
               [] typ = PhoneNumberTypes.International ->
                    [p |-> << 43 >> \o DecodeSemiAddress(Drop(octs, 1)), err |-> "nil"]
               [] typ = PhoneNumberTypes.National ->
                    [p |-> DecodeSemiAddress(Drop(octs, 1)), err |-> "nil"]
               [] OTHER -> [p |-> p, err |-> "ErrUnsupportedTypeOfNumber"]

\* ------------------------------------------------------------------------
\* package time: calendar arithmetic of time.Date, Time.Add and Time.In
\* ------------------------------------------------------------------------

IsLeap(y) == (y % 4 = 0 /\ y % 100 # 0) \/ y % 400 = 0

DaysInMonth(y, m) ==
    IF m = 2 THEN (IF IsLeap(y) THEN 29 ELSE 28)
    ELSE IF m \in {4, 6, 9, 11} THEN 30 ELSE 31

\* days from 0001-01-01 to the first day of year y (y >= 1)
DaysBeforeYear(y) ==
    365 * (y - 1) + ((y - 1) \div 4) - ((y - 1) \div 100) + ((y - 1) \div 400)

RECURSIVE DaysBeforeMonth(_, _)
DaysBeforeMonth(y, m) ==
    IF m <= 1 THEN 0 ELSE DaysInMonth(y, m - 1) + DaysBeforeMonth(y, m - 1)

\* the calendar date of day number dn (days since 0001-01-01)
CivilFromDays(dn) ==
    LET y  == CHOOSE yy \in ((dn \div 366) + 1)..((dn \div 365) + 1) :
                  DaysBeforeYear(yy) <= dn /\ dn < DaysBeforeYear(yy + 1)
        yd == dn - DaysBeforeYear(y)
        m  == CHOOSE mm \in 1..12 :
                  DaysBeforeMonth(y, mm) <= yd /\ yd < DaysBeforeMonth(y, mm) + DaysInMonth(y, mm)
    IN  [year |-> y, month |-> m, day |-> yd - DaysBeforeMonth(y, m) + 1]

\* a wall clock from a day number and a second of the day, in a zone
WallClock(dn, sod, offset) ==
    LET c == CivilFromDays(dn)
    IN  [year |-> c.year, month |-> c.month, day |-> c.day,
         hour |-> sod \div 3600, minute |-> (sod % 3600) \div 60, second |-> sod % 60,
         offset |-> offset]

\* time.Date(year, month, day, hour, min, sec, 0, time.UTC): values outside
\* their usual ranges are normalised (hour, min, sec and day are never
\* negative here; month 0 is December of the year before)
TimeDate(year, month, day, hour, min, sec) ==
    LET y   == year + ((month + 11) \div 12) - 1
        m   == ((month + 11) % 12) + 1
        tot == hour * 3600 + min * 60 + sec
        dn  == DaysBeforeYear(y) + DaysBeforeMonth(y, m) + (day - 1) + (tot \div 86400)
    IN  WallClock(dn, tot % 86400, 0)

\* the day number and second of the day of a wall clock
DayNumber(d) == DaysBeforeYear(d.year) + DaysBeforeMonth(d.year, d.month) + (d.day - 1)
SecondOfDay(d) == d.hour * 3600 + d.minute * 60 + d.second

\* Time.Add(delta seconds), |delta| <= 4 days: same zone, shifted instant
TimeAdd(d, delta) ==
    LET tot == SecondOfDay(d) + delta + 4 * 86400
    IN  WallClock(DayNumber(d) - 4 + (tot \div 86400), tot % 86400, d.offset)

\* a Time.In that keeps the wall clock and replaces the zone
TimeInSameClock(d, offset) == [ d EXCEPT !.offset = offset ]

\* Time.In(time.FixedZone("", offset)): same instant, read in another zone
TimeIn(d, offset) == [ TimeAdd(d, offset - d.offset) EXCEPT !.offset = offset ]

\* the zero time.Time: January 1, year 1, 00:00:00 UTC
ZeroTime ==
    [year |-> 1, month |-> 1, day |-> 1, hour |-> 0, minute |-> 0, second |-> 0, offset |-> 0]

\* time.Now().Year() when the codec runs
NowYear == 2026

\* ------------------------------------------------------------------------
\* sms/timestamp.go
\* ------------------------------------------------------------------------

\* Timestamp.PDU
TimestampPDU(date) ==
    LET negativeOffset == date.offset < 0
        offset   == IF negativeOffset THEN 0 - date.offset ELSE date.offset
        quarters == (offset \div 3600) * 4
        zz       == Swap(Encode(quarters))
    IN  << Swap(Encode(date.year % 1000)),
           Swap(Encode(date.month)),
           Swap(Encode(date.day)),
           Swap(Encode(date.hour)),
           Swap(Encode(date.minute)),
           Swap(Encode(date.second)),
           IF negativeOffset THEN SetBit(zz, 2) ELSE zz >>

\* Timestamp.ReadFrom (of at least seven octets)
TimestampReadFrom(octs) ==
    LET millennium == (NowYear \div 1000) * 1000
        year   == Decode(Swap(octs[1]))
        month  == Decode(Swap(octs[2]))
        day    == Decode(Swap(octs[3]))
        hour   == Decode(Swap(octs[4]))
        minute == Decode(Swap(octs[5]))
        second == Decode(Swap(octs[6]))
        negativeOffset == Bit(octs[7], 2) # 0
        quarters == Decode(Swap(ClearBit(octs[7], 3)))
        offset == IF negativeOffset THEN 0 - quarters * 900 ELSE quarters * 900
        date   == TimeDate(millennium + year, month, day, hour, minute, second)
    IN  TimeIn(TimeAdd(date, 0 - offset), offset)

\* ------------------------------------------------------------------------
\* sms/validity_period.go
\* ------------------------------------------------------------------------

ValidityPeriodFormats == [ FieldNotPresent |-> 0, Relative |-> 2, Enhanced |-> 1, Absolute |-> 3 ]

\* RelativeValidityPeriod.Octet.  A time.Duration counts nanoseconds; d is a
\* duration of whole seconds, given in seconds.  In the third case the code
\* subtracts d/time.Hour*12, which is 12 nanoseconds per whole hour (at most
\* 276 ns here), before it divides by 30 minutes: the quotient is one less
\* than d / 30 min exactly when d is a multiple of 30 minutes.
RelativeValidityPeriodOctet(d) ==
    IF d \div 60 < 5 THEN 0
    ELSE IF d \div 3600 < 12 THEN Byte(d \div 300)
    ELSE IF d \div 3600 < 24
    THEN Byte((IF d % 1800 = 0 THEN (d \div 1800) - 1 ELSE d \div 1800) + 143)
    ELSE IF d \div 3600 < 744 THEN Byte((d \div 86400) + 166)
    ELSE LET weeks == d \div 604800
         IN  IF weeks > 62 THEN 255 ELSE Byte(weeks + 192)

\* RelativeValidityPeriod.ReadFrom, in seconds
RelativeValidityPeriodReadFrom(oct) ==
    IF oct <= 143 THEN 300 * oct
    ELSE IF oct <= 167 THEN 43200 + 1800 * (oct - 143)
    ELSE IF oct <= 196 THEN 86400 * (oct - 166)
    ELSE 604800 * (oct - 192)

\* ------------------------------------------------------------------------
\* sms/user_data_header.go
\* ------------------------------------------------------------------------

ZeroUserDataHeader == [TotalNumber |-> 0, Sequence |-> 0, Tag |-> 0]

\* UserDataHeader.ReadFrom: octets[0] of an empty slice panics
UserDataHeaderReadFrom(udh, octs) ==
    IF Len(octs) = 0 THEN [udh |-> udh, err |-> "panic"]
    ELSE LET octetsLng == Len(octs)
             headerLng == octs[1] + 1
         IN  IF (octetsLng - headerLng) <= 0 \/ headerLng <= 5
             THEN [udh |-> udh, err |-> "ErrIncorrectUserDataHeaderLength"]
             ELSE [udh |-> [Sequence |-> octs[6], TotalNumber |-> octs[5], Tag |-> octs[4]],
                   err |-> "nil"]

\* ------------------------------------------------------------------------
\* io: reading from a bytes.Reader
\* ------------------------------------------------------------------------

\* io.ReadFull(buf, make([]byte, k)) on the unread octets rest
ReadFull(rest, k) ==
    IF k = 0 THEN [data |-> <<>>, off |-> 0, err |-> "nil"]
    ELSE IF Len(rest) = 0 THEN [data |-> <<>>, off |-> 0, err |-> "EOF"]
    ELSE IF Len(rest) < k THEN [data |-> rest, off |-> Len(rest), err |-> "ErrUnexpectedEOF"]
    ELSE [data |-> Take(rest, k), off |-> k, err |-> "nil"]

blocks(k, block) == IF k % block = 0 THEN k \div block ELSE (k \div block) + 1

\* ------------------------------------------------------------------------
\* sms/sms_deliver.go
\* ------------------------------------------------------------------------

MessageTypes ==
    [ Deliver |-> 0, DeliverReport |-> 0, StatusReport |-> 2, Command |-> 2,
      Submit |-> 1, SubmitReport |-> 1 ]

\* header |= 0x01 << i when the flag is set
Flag(header, flag, i) == IF flag THEN SetBit(header, i) ELSE header

\* smsDeliver.Bytes: the first octet of the TPDU
smsDeliverHeader(sms) ==
    LET h0 == sms.MessageTypeIndicator
        h1 == Flag(h0, ~sms.MoreMessagesToSend, 2)
        h2 == Flag(h1, sms.LoopPrevention, 3)
        h3 == Flag(h2, sms.StatusReportIndication, 4)
        h4 == Flag(h3, sms.UserDataHeaderIndicator, 5)
    IN  Flag(h4, sms.ReplyPath, 6)

\* smsDeliver.Bytes
smsDeliverBytes(sms) ==
    << smsDeliverHeader(sms) >> \o sms.OriginatingAddress
        \o << sms.ProtocolIdentifier, sms.DataCodingScheme >>
        \o sms.ServiceCentreTimestamp \o << sms.UserDataLength >> \o sms.UserData

\* smsDeliver.FromBytes: the flags read from the first octet
smsDeliverFlags(header) ==
    [ MessageTypeIndicator    |-> header % 4,
      MoreMessagesToSend      |-> Bit(header, 2) = 0,
      LoopPrevention          |-> Bit(header, 3) = 1,
      StatusReportIndication  |-> Bit(header, 4) = 1,
      UserDataHeaderIndicator |-> Bit(header, 6) # 0,
      ReplyPath               |-> Bit(header, 7) # 0 ]

\* smsDeliver.FromBytes: [sms, n, err]; sms is meaningful when err = "nil"
smsDeliverFromBytes(octs) ==
    IF Len(octs) < 1 THEN [sms |-> <<>>, n |-> 1, err |-> "EOF"]
    ELSE IF Len(octs) < 2 THEN [sms |-> <<>>, n |-> 2, err |-> "EOF"]
    ELSE LET f     == smsDeliverFlags(octs[1])
             oaLen == octs[2]
             oa    == ReadFull(Drop(octs, 1), blocks(oaLen, 2) + 2)
             n1    == 1 + oa.off
             r1    == Drop(octs, n1)
             scts  == ReadFull(Drop(r1, 2), 7)
             n2    == n1 + 2 + scts.off
             r2    == Drop(octs, n2)
             ud    == ReadFull(Drop(r2, 1), IF Len(r2) > 0 THEN r2[1] ELSE 0)
         IN  IF oa.err # "nil" THEN [sms |-> <<>>, n |-> n1, err |-> oa.err]
             ELSE IF Len(r1) < 1 THEN [sms |-> <<>>, n |-> n1 + 1, err |-> "EOF"]
             ELSE IF Len(r1) < 2 THEN [sms |-> <<>>, n |-> n1 + 2, err |-> "EOF"]
             ELSE IF scts.err # "nil" THEN [sms |-> <<>>, n |-> n2, err |-> scts.err]
             ELSE IF Len(r2) < 1 THEN [sms |-> <<>>, n |-> n2 + 1, err |-> "EOF"]
             ELSE [sms |-> [ MessageTypeIndicator    |-> f.MessageTypeIndicator,
                             MoreMessagesToSend      |-> f.MoreMessagesToSend,
                             LoopPrevention          |-> f.LoopPrevention,
                             ReplyPath               |-> f.ReplyPath,
                             UserDataHeaderIndicator |-> f.UserDataHeaderIndicator,
                             StatusReportIndication  |-> f.StatusReportIndication,
                             OriginatingAddress      |-> oa.data,
                             ProtocolIdentifier      |-> r1[1],
                             DataCodingScheme        |-> r1[2],
                             ServiceCentreTimestamp  |-> scts.data,
                             UserDataLength          |-> r2[1],
                             UserData                |-> ud.data ],
                   n |-> n2 + 1 + ud.off, err |-> "nil"]

\* ------------------------------------------------------------------------
\* sms/sms_submit.go
\* ------------------------------------------------------------------------

\* smsSubmit.Bytes: the first octet of the TPDU
smsSubmitHeader(sms) ==
    LET h0 == sms.MessageTypeIndicator
        h1 == Flag(h0, sms.RejectDuplicates, 2)
        h2 == BitOr(h1, Byte(sms.ValidityPeriodFormat * 8))
        h3 == Flag(h2, sms.StatusReportRequest, 5)
        h4 == Flag(h3, sms.UserDataHeaderIndicator, 6)
    IN  Flag(h4, sms.ReplyPath, 7)

\* smsSubmit.Bytes
smsSubmitBytes(sms) ==
    << smsSubmitHeader(sms), sms.MessageReference >> \o sms.DestinationAddress
        \o << sms.ProtocolIdentifier, sms.DataCodingScheme >>
        \o (IF sms.ValidityPeriodFormat # ValidityPeriodFormats.FieldNotPresent
            THEN sms.ValidityPeriod ELSE <<>>)
        \o << sms.UserDataLength >> \o sms.UserData

\* smsSubmit.FromBytes: the flags read from the first octet
smsSubmitFlags(header) ==
    [ MessageTypeIndicator    |-> header % 4,
      RejectDuplicates        |-> Bit(header, 2) > 0,
      ValidityPeriodFormat    |-> (header \div 8) % 4,
      StatusReportRequest     |-> Bit(header, 5) > 0,
      UserDataHeaderIndicator |-> Bit(header, 6) > 0,
      ReplyPath               |-> Bit(header, 7) > 0 ]

\* smsSubmit.FromBytes: the number of validity-period octets read for a format
smsSubmitVpLen(vpf) == IF vpf # ValidityPeriodFormats.FieldNotPresent THEN 1 ELSE 0

\* smsSubmit.FromBytes: [sms, n, err]
smsSubmitFromBytes(octs) ==
    IF Len(octs) < 1 THEN [sms |-> <<>>, n |-> 1, err |-> "EOF"]
    ELSE IF Len(octs) < 2 THEN [sms |-> <<>>, n |-> 2, err |-> "EOF"]
    ELSE IF Len(octs) < 3 THEN [sms |-> <<>>, n |-> 3, err |-> "EOF"]
    ELSE IF octs[3] > 16 THEN [sms |-> <<>>, n |-> 3, err |-> "ErrIncorrectSize"]
    ELSE LET f     == smsSubmitFlags(octs[1])
             daLen == octs[3]
             da    == ReadFull(Drop(octs, 2), blocks(daLen, 2) + 2)
             n1    == 2 + da.off
             r1    == Drop(octs, n1)
             vp    == ReadFull(Drop(r1, 2), smsSubmitVpLen(f.ValidityPeriodFormat))
             n2    == n1 + 2 + vp.off
             r2    == Drop(octs, n2)
             ud    == ReadFull(Drop(r2, 1), IF Len(r2) > 0 THEN r2[1] ELSE 0)
         IN  IF da.err # "nil" THEN [sms |-> <<>>, n |-> n1, err |-> da.err]
             ELSE IF Len(r1) < 1 THEN [sms |-> <<>>, n |-> n1 + 1, err |-> "EOF"]
             ELSE IF Len(r1) < 2 THEN [sms |-> <<>>, n |-> n1 + 2, err |-> "EOF"]
             ELSE IF vp.err # "nil" THEN [sms |-> <<>>, n |-> n2, err |-> vp.err]
             ELSE IF Len(r2) < 1 THEN [sms |-> <<>>, n |-> n2 + 1, err |-> "EOF"]
             ELSE [sms |-> [ MessageTypeIndicator    |-> f.MessageTypeIndicator,
                             RejectDuplicates        |-> f.RejectDuplicates,
                             ValidityPeriodFormat    |-> f.ValidityPeriodFormat,
                             ReplyPath               |-> f.ReplyPath,
                             UserDataHeaderIndicator |-> f.UserDataHeaderIndicator,
                             StatusReportRequest     |-> f.StatusReportRequest,
                             MessageReference        |-> octs[2],
                             DestinationAddress      |-> da.data,
                             ProtocolIdentifier      |-> r1[1],
                             DataCodingScheme        |-> r1[2],
                             ValidityPeriod          |-> vp.data,
                             UserDataLength          |-> r2[1],
                             UserData                |-> ud.data ],
                   n |-> n2 + 1 + ud.off, err |-> "nil"]

\* ------------------------------------------------------------------------
\* sms/sms_status_report.go
\* ------------------------------------------------------------------------

\* smsStatusReport.Bytes: the first octet of the TPDU
smsStatusReportHeader(sms) ==
    LET h0 == sms.MessageTypeIndicator
        h1 == Flag(h0, ~sms.MoreMessagesToSend, 2)
        h2 == Flag(h1, sms.LoopPrevention, 3)
        h3 == Flag(h2, sms.StatusReportQualificator, 5)
    IN  Flag(h3, sms.UserDataHeaderIndicator, 6)

\* smsStatusReport.Bytes
smsStatusReportBytes(sms) ==
    LET i0 == Flag(0, sms.ProtocolIdentifier # 0, 0)
        i1 == Flag(i0, sms.DataCodingScheme # 0, 1)
        indicator == Flag(i1, sms.UserDataHeaderIndicator, 2)
        trailer ==
            (IF sms.ProtocolIdentifier # 0 THEN << sms.ProtocolIdentifier >> ELSE <<>>)
            \o (IF sms.DataCodingScheme # 0 THEN << sms.DataCodingScheme >> ELSE <<>>)
            \o (IF sms.UserDataHeaderIndicator
                THEN << sms.UserDataLength >> \o sms.UserData ELSE <<>>)
    IN  << smsStatusReportHeader(sms), sms.MessageReference >> \o sms.DestinationAddress
            \o sms.ServiceCentreTimestamp \o sms.DischargeTimestamp
            \o << sms.Status, indicator >> \o trailer

\* smsStatusReport.FromBytes: the flags read from the first octet
smsStatusReportFlags(header) ==
    [ MessageTypeIndicator     |-> header % 4,
      MoreMessagesToSend       |-> Bit(header, 2) = 0,
      LoopPrevention           |-> Bit(header, 3) = 1,
      StatusReportQualificator |-> Bit(header, 4) = 1,
      UserDataHeaderIndicator  |-> Bit(header, 6) # 0 ]

\* smsStatusReport.FromBytes, from the parameter indicator on: rest are the
\* octets after the Status octet, n0 the octets counted so far
smsStatusReportTrailer(rest, n0) ==
    IF Len(rest) < 1
    THEN [Parameters |-> 0, ProtocolIdentifier |-> 0, DataCodingScheme |-> 0,
          UserDataLength |-> 0, UserData |-> <<>>, n |-> n0, err |-> "nil"]
    ELSE LET params == rest[1]
             hasPid == Bit(params, 0) # 0
             hasDcs == Bit(params, 1) # 0
             hasUd  == Bit(params, 2) # 0
             r1     == Drop(rest, 1)
             n1     == n0 + 1
             r2     == IF hasPid THEN Drop(r1, 1) ELSE r1
             n2     == IF hasPid THEN n1 + 1 ELSE n1
             r3     == IF hasDcs THEN Drop(r2, 1) ELSE r2
             n3     == IF hasDcs THEN n2 + 1 ELSE n2
             ud     == ReadFull(Drop(r3, 1), IF Len(r3) > 0 THEN r3[1] ELSE 0)
             none   == [Parameters |-> params, ProtocolIdentifier |-> 0, DataCodingScheme |-> 0,
                        UserDataLength |-> 0, UserData |-> <<>>, n |-> 0, err |-> "EOF"]
         IN  IF hasPid /\ Len(r1) < 1 THEN [none EXCEPT !.n = n2]
             ELSE IF hasDcs /\ Len(r2) < 1 THEN [none EXCEPT !.n = n3]
             ELSE IF hasUd /\ Len(r3) < 1 THEN [none EXCEPT !.n = n3 + 1]
             ELSE [ Parameters         |-> params,
                    ProtocolIdentifier |-> IF hasPid THEN r1[1] ELSE 0,
                    DataCodingScheme   |-> IF hasDcs THEN r2[1] ELSE 0,
                    UserDataLength     |-> IF hasUd THEN r3[1] ELSE 0,
                    UserData           |-> IF hasUd THEN ud.data ELSE <<>>,
                    n   |-> IF hasUd THEN n3 + 1 + ud.off ELSE n3,
                    err |-> "nil" ]

\* smsStatusReport.FromBytes: [sms, n, err]
smsStatusReportFromBytes(octs) ==
    IF Len(octs) < 1 THEN [sms |-> <<>>, n |-> 1, err |-> "EOF"]
    ELSE IF Len(octs) < 2 THEN [sms |-> <<>>, n |-> 2, err |-> "EOF"]
    ELSE IF Len(octs) < 3 THEN [sms |-> <<>>, n |-> 3, err |-> "EOF"]
    ELSE IF octs[3] > 16 THEN [sms |-> <<>>, n |-> 3, err |-> "ErrIncorrectSize"]
    ELSE LET f     == smsStatusReportFlags(octs[1])
             daLen == octs[3]
             da    == ReadFull(Drop(octs, 2), blocks(daLen, 2) + 2)
             n1    == 2 + da.off
             scts  == ReadFull(Drop(octs, n1), 7)
             n2    == n1 + scts.off
             dt    == ReadFull(Drop(octs, n2), 7)
             n3    == n2 + dt.off
             r3    == Drop(octs, n3)
             tr    == smsStatusReportTrailer(Drop(r3, 1), n3 + 1)
         IN  IF da.err # "nil" THEN [sms |-> <<>>, n |-> n1, err |-> da.err]
             ELSE IF scts.err # "nil" THEN [sms |-> <<>>, n |-> n2, err |-> scts.err]
             ELSE IF dt.err # "nil" THEN [sms |-> <<>>, n |-> n3, err |-> dt.err]
             ELSE IF Len(r3) < 1 THEN [sms |-> <<>>, n |-> n3 + 1, err |-> "EOF"]
             ELSE IF tr.err # "nil" THEN [sms |-> <<>>, n |-> tr.n, err |-> tr.err]
             ELSE [sms |-> [ MessageTypeIndicator     |-> f.MessageTypeIndicator,
                             MoreMessagesToSend       |-> f.MoreMessagesToSend,
                             LoopPrevention           |-> f.LoopPrevention,
                             UserDataHeaderIndicator  |-> f.UserDataHeaderIndicator,
                             StatusReportQualificator |-> f.StatusReportQualificator,
                             MessageReference         |-> octs[2],
                             DestinationAddress       |-> da.data,
                             Parameters               |-> tr.Parameters,
                             ProtocolIdentifier       |-> tr.ProtocolIdentifier,
                             DataCodingScheme         |-> tr.DataCodingScheme,
                             ServiceCentreTimestamp   |-> scts.data,
                             DischargeTimestamp       |-> dt.data,
                             Status                   |-> r3[1],
                             UserDataLength           |-> tr.UserDataLength,
                             UserData                 |-> tr.UserData ],
                   n |-> tr.n, err |-> "nil"]

\* ------------------------------------------------------------------------
\* sms/encoding.go, sms/sms.go
\* ------------------------------------------------------------------------

Encodings == [ Gsm7Bit |-> 0, UCS2 |-> 8, Gsm7Bit_2 |-> 17, Gsm7Bit_3 |-> 1 ]

\* Message{}: the zero value
ZeroMessage ==
    [ Type |-> 0, Encoding |-> 0, VP |-> 0, VPFormat |-> 0,
      ServiceCenterTime |-> ZeroTime, DischargeTime |-> ZeroTime,
      ServiceCenterAddress |-> <<>>, Address |-> <<>>, Text |-> <<>>,
      UserDataHeader |-> ZeroUserDataHeader,
      MessageReference |-> 0, Status |-> 0,
      ReplyPathExists |-> FALSE, UserDataStartsWithHeader |-> FALSE,
      StatusReportIndication |-> FALSE, StatusReportRequest |-> FALSE,
      StatusReportQualificator |-> FALSE, MoreMessagesToSend |-> FALSE,
      LoopPrevention |-> FALSE, RejectDuplicates |-> FALSE ]

\* the encodings the switch of the encoders and of decodeUserData packs as
\* GSM 7-bit
SevenBitCases == { Encodings.Gsm7Bit, Encodings.Gsm7Bit_2 }

\* the user-data switch of encodeDeliver, encodeSubmit, encodeStatusReport
encodeUserData(m) ==
    IF m.Encoding \in SevenBitCases
    THEN [UserData |-> Encode7Bit(m.Text), UserDataLength |-> Byte(ByteLen(m.Text)), err |-> "nil"]
    ELSE IF m.Encoding = Encodings.UCS2
    THEN [UserData |-> EncodeUcs2(m.Text), UserDataLength |-> Byte(Len(EncodeUcs2(m.Text))),
          err |-> "nil"]
    ELSE [UserData |-> <<>>, UserDataLength |-> 0, err |-> "ErrUnknownEncoding"]

\* Message.encodeDeliver: [n, octets, err], octets being what is written to buf
encodeDeliver(m) ==
    LET addr == PhoneNumberPDU(m.Address)
        ud   == encodeUserData(m)
        sms  == [ MessageTypeIndicator    |-> m.Type,
                  MoreMessagesToSend      |-> m.MoreMessagesToSend,
                  LoopPrevention          |-> m.LoopPrevention,
                  ReplyPath               |-> m.ReplyPathExists,
                  UserDataHeaderIndicator |-> m.UserDataStartsWithHeader,
                  StatusReportIndication  |-> m.StatusReportIndication,
                  OriginatingAddress      |-> << Byte(addr.n) >> \o addr.octets,
                  ProtocolIdentifier      |-> 0,
                  DataCodingScheme        |-> m.Encoding,
                  ServiceCentreTimestamp  |-> TimestampPDU(m.ServiceCenterTime),
                  UserDataLength          |-> ud.UserDataLength,
                  UserData                |-> ud.UserData ]
    IN  IF addr.err # "nil" THEN [n |-> 0, octets |-> <<>>, err |-> addr.err]
        ELSE IF ud.err # "nil" THEN [n |-> 0, octets |-> <<>>, err |-> ud.err]
        ELSE [n |-> Len(smsDeliverBytes(sms)), octets |-> smsDeliverBytes(sms), err |-> "nil"]

\* Message.encodeSubmit
encodeSubmit(m) ==
    LET addr == PhoneNumberPDU(m.Address)
        ud   == encodeUserData(m)
        sms  == [ MessageTypeIndicator    |-> m.Type,
                  RejectDuplicates        |-> m.RejectDuplicates,
                  ValidityPeriodFormat    |-> m.VPFormat,
                  ReplyPath               |-> m.ReplyPathExists,
                  UserDataHeaderIndicator |-> m.UserDataStartsWithHeader,
                  StatusReportRequest     |-> m.StatusReportRequest,
                  MessageReference        |-> m.MessageReference,
                  DestinationAddress      |-> << Byte(addr.n) >> \o addr.octets,
                  ProtocolIdentifier      |-> 0,
                  DataCodingScheme        |-> m.Encoding,
                  ValidityPeriod          |->
                      IF m.VPFormat = ValidityPeriodFormats.Relative
                      THEN << RelativeValidityPeriodOctet(m.VP) >> ELSE <<>>,
                  UserDataLength          |-> ud.UserDataLength,
                  UserData                |-> ud.UserData ]
    IN  IF addr.err # "nil" THEN [n |-> 0, octets |-> <<>>, err |-> addr.err]
        ELSE IF m.VPFormat \in {ValidityPeriodFormats.Absolute, ValidityPeriodFormats.Enhanced}
        THEN [n |-> 0, octets |-> <<>>, err |-> "ErrNonRelative"]
        ELSE IF ud.err # "nil" THEN [n |-> 0, octets |-> <<>>, err |-> ud.err]
        ELSE [n |-> Len(smsSubmitBytes(sms)), octets |-> smsSubmitBytes(sms), err |-> "nil"]

\* Message.encodeStatusReport
encodeStatusReport(m) ==
    LET addr == PhoneNumberPDU(m.Address)
        ud   == encodeUserData(m)
        sms  == [ MessageTypeIndicator     |-> m.Type,
                  UserDataHeaderIndicator  |-> m.UserDataStartsWithHeader,
                  MoreMessagesToSend       |-> m.MoreMessagesToSend,
                  LoopPrevention           |-> m.LoopPrevention,
                  StatusReportQualificator |-> m.StatusReportQualificator,
                  MessageReference         |-> m.MessageReference,
                  DestinationAddress       |-> << Byte(addr.n) >> \o addr.octets,
                  Parameters               |-> 0,
                  ProtocolIdentifier       |-> 0,
                  DataCodingScheme         |-> 0,
                  ServiceCentreTimestamp   |-> TimestampPDU(m.ServiceCenterTime),
                  DischargeTimestamp       |-> TimestampPDU(m.DischargeTime),
                  Status                   |-> m.Status,
                  UserDataLength           |-> ud.UserDataLength,
                  UserData                 |-> ud.UserData ]
    IN  IF addr.err # "nil" THEN [n |-> 0, octets |-> <<>>, err |-> addr.err]
        ELSE IF ud.err # "nil" THEN [n |-> 0, octets |-> <<>>, err |-> ud.err]
        ELSE [n |-> Len(smsStatusReportBytes(sms)), octets |-> smsStatusReportBytes(sms),
              err |-> "nil"]

\* Message.PDU: the SMSC prefix written first
SmscPrefix(m) ==
    IF Len(m.ServiceCenterAddress) < 1 THEN [octets |-> << 0 >>, err |-> "nil"]
    ELSE LET sca == PhoneNumberPDU(m.ServiceCenterAddress)
         IN  [octets |-> << Byte(Len(sca.octets)) >> \o sca.octets, err |-> sca.err]

\* as PduResult, with the length of the whole buffer as n
PduResultWholeBuffer(prefix, enc) ==
    [n |-> Len(prefix \o enc.octets), octets |-> prefix \o enc.octets, err |-> "nil"]

\* what Message.PDU returns of the variant encoder's results: the number of
\* TPDU octets and the whole buffer
PduResult(prefix, enc) == [n |-> enc.n, octets |-> prefix \o enc.octets, err |-> "nil"]

\* Message.PDU: [n, octets, err]
MessagePDU(m) ==
    LET prefix == SmscPrefix(m)
        enc == CASE m.Type = MessageTypes.Deliver      -> encodeDeliver(m)
                 [] m.Type = MessageTypes.Submit       -> encodeSubmit(m)
                 [] m.Type = MessageTypes.StatusReport -> encodeStatusReport(m)
                 [] OTHER -> [n |-> 0, octets |-> <<>>, err |-> "ErrUnknownMessageType"]
    IN  IF prefix.err # "nil" THEN [n |-> 0, octets |-> <<>>, err |-> prefix.err]
        ELSE IF enc.err # "nil" THEN [n |-> 0, octets |-> <<>>, err |-> enc.err]
        ELSE PduResult(prefix.octets, enc)

\* cap([]rune(str)) in cutStr: the conversion does not escape, so the gc
\* runtime builds a string of at most 32 runes in a zeroed stack buffer of
\* 32 runes (runtime.tmpStringBufSize); a longer one gets a heap slice of at
\* least its length
RuneSliceCap(str) == IF Len(str) <= 32 THEN 32 ELSE Len(str)

\* cutStr: runes[0:k] panics when k exceeds the capacity of runes and reads
\* zero runes between the length and the capacity
cutStr(str, k) ==
    IF k < ByteLen(str)
    THEN (IF k > RuneSliceCap(str) THEN [str |-> <<>>, err |-> "panic"]
          ELSE IF k > Len(str) THEN [str |-> str \o [i \in 1..(k - Len(str)) |-> 0], err |-> "nil"]
          ELSE [str |-> Take(str, k), err |-> "nil"])
    ELSE [str |-> str, err |-> "nil"]

\* Message.decodeUserData: [Text, err]; m.Encoding and
\* m.UserDataStartsWithHeader are already set
decodeUserData(m, data, dataLen) ==
    IF m.Encoding \in SevenBitCases
    THEN LET cut == cutStr(Decode7Bit(data).str, dataLen)
         IN  [Text |-> cut.str, err |-> cut.err]
    ELSE IF m.Encoding = Encodings.UCS2
    THEN LET dec == DecodeUcs2(data, m.UserDataStartsWithHeader)
         IN  [Text |-> dec.str, err |-> dec.err]
    ELSE [Text |-> m.Text, err |-> "ErrUnknownEncoding"]

\* the end of the three decoders: err = s.decodeUserData(...); return n, err
decodeText(m, ud, cnt) == [s |-> [m EXCEPT !.Text = ud.Text], n |-> cnt, err |-> ud.err]

\* Message.decodeDeliver after the user data header: the remaining fields
\* and the text
decodeDeliverRest(m, sms, cnt) ==
    LET m3 == [m EXCEPT !.StatusReportIndication = sms.StatusReportIndication,
                        !.Address = PhoneNumberReadFrom(m.Address,
                                        Drop(sms.OriginatingAddress, 1)).p,
                        !.Encoding = sms.DataCodingScheme,
                        !.ServiceCenterTime = TimestampReadFrom(sms.ServiceCentreTimestamp)]
    IN  decodeText(m3, decodeUserData(m3, sms.UserData, sms.UserDataLength), cnt)

\* Message.decodeDeliver once s.UserDataHeader.ReadFrom has returned udh
decodeDeliverHeader(m, sms, cnt, udh) ==
    IF udh.err # "nil" THEN [s |-> m, n |-> cnt, err |-> udh.err]
    ELSE decodeDeliverRest([m EXCEPT !.UserDataHeader = udh.udh], sms, cnt)

\* Message.decodeDeliver once sms.FromBytes has returned r
decodeDeliverFields(m, r) ==
    LET sms == r.sms
        m1  == [m EXCEPT !.MoreMessagesToSend = sms.MoreMessagesToSend,
                         !.LoopPrevention = sms.LoopPrevention,
                         !.ReplyPathExists = sms.ReplyPath,
                         !.UserDataStartsWithHeader = sms.UserDataHeaderIndicator]
    IN  IF r.err # "nil" THEN [s |-> m, n |-> r.n, err |-> r.err]
        ELSE IF sms.UserDataHeaderIndicator
        THEN decodeDeliverHeader(m1, sms, r.n,
                                 UserDataHeaderReadFrom(m1.UserDataHeader, sms.UserData))
        ELSE decodeDeliverRest(m1, sms, r.n)

\* Message.decodeDeliver: [s, n, err] from the message m built so far
decodeDeliver(m, data) == decodeDeliverFields(m, smsDeliverFromBytes(data))

\* Message.decodeSubmit: the validity-period formats on which the switch on
\* s.VPFormat returns ErrNonRelative; the switch reads the field of the
\* message, which ReadFrom has reset, before anything is stored in it
decodeSubmitNonRelative(m) ==
    m.VPFormat \in {ValidityPeriodFormats.Absolute, ValidityPeriodFormats.Enhanced}

\* Message.decodeSubmit after the switch on s.VPFormat
decodeSubmitRest(m, sms, cnt) ==
    LET m2 == [m EXCEPT !.VPFormat = sms.ValidityPeriodFormat,
                        !.MessageReference = sms.MessageReference,
                        !.ReplyPathExists = sms.ReplyPath,
                        !.UserDataStartsWithHeader = sms.UserDataHeaderIndicator,
                        !.StatusReportRequest = sms.StatusReportRequest,
                        !.Address = PhoneNumberReadFrom(m.Address,
                                        Drop(sms.DestinationAddress, 1)).p,
                        !.Encoding = sms.DataCodingScheme,
                        !.VP = IF sms.ValidityPeriodFormat # ValidityPeriodFormats.FieldNotPresent
                               THEN RelativeValidityPeriodReadFrom(sms.ValidityPeriod[1])
                               ELSE m.VP]
    IN  decodeText(m2, decodeUserData(m2, sms.UserData, sms.UserDataLength), cnt)

\* Message.decodeSubmit once sms.FromBytes has returned r
decodeSubmitFields(m, r) ==
    LET m1 == [m EXCEPT !.RejectDuplicates = r.sms.RejectDuplicates]
    IN  IF r.err # "nil" THEN [s |-> m, n |-> r.n, err |-> r.err]
        ELSE IF decodeSubmitNonRelative(m1) THEN [s |-> m1, n |-> r.n, err |-> "ErrNonRelative"]
        ELSE decodeSubmitRest(m1, r.sms, r.n)

\* Message.decodeSubmit
decodeSubmit(m, data) == decodeSubmitFields(m, smsSubmitFromBytes(data))

\* Message.decodeStatusReport after the user data header
decodeStatusReportRest(m, sms, cnt) ==
    LET m3 == [m EXCEPT !.StatusReportQualificator = sms.StatusReportQualificator,
                        !.Status = sms.Status,
                        !.Address = PhoneNumberReadFrom(m.Address,
                                        Drop(sms.DestinationAddress, 1)).p,
                        !.Encoding = sms.DataCodingScheme,
                        !.ServiceCenterTime = TimestampReadFrom(sms.ServiceCentreTimestamp),
                        !.DischargeTime = TimestampReadFrom(sms.DischargeTimestamp)]
    IN  decodeText(m3, decodeUserData(m3, sms.UserData, sms.UserDataLength), cnt)

\* Message.decodeStatusReport once s.UserDataHeader.ReadFrom has returned udh
decodeStatusReportHeader(m, sms, cnt, udh) ==
    IF udh.err # "nil" THEN [s |-> m, n |-> cnt, err |-> udh.err]
    ELSE decodeStatusReportRest([m EXCEPT !.UserDataHeader = udh.udh], sms, cnt)

\* Message.decodeStatusReport once sms.FromBytes has returned r
decodeStatusReportFields(m, r) ==
    LET sms == r.sms
        m1  == [m EXCEPT !.MessageReference = sms.MessageReference,
                         !.MoreMessagesToSend = sms.MoreMessagesToSend,
                         !.LoopPrevention = sms.LoopPrevention,
                         !.UserDataStartsWithHeader = sms.UserDataHeaderIndicator]
    IN  IF r.err # "nil" THEN [s |-> m, n |-> r.n, err |-> r.err]
        ELSE IF sms.UserDataHeaderIndicator
        THEN decodeStatusReportHeader(m1, sms, r.n,
                                      UserDataHeaderReadFrom(m1.UserDataHeader, sms.UserData))
        ELSE decodeStatusReportRest(m1, sms, r.n)

\* Message.decodeStatusReport
decodeStatusReport(m, data) == decodeStatusReportFields(m, smsStatusReportFromBytes(data))

\* a byte count that leaves out the SMSC prefix
ReadFromResultTpduOnly(n1, dec) == [s |-> dec.s, n |-> dec.n, err |-> dec.err]

\* Message.ReadFrom: n += the variant decoder's n
ReadFromResult(n1, dec) == [s |-> dec.s, n |-> n1 + dec.n, err |-> dec.err]

\* Message.ReadFrom from s.Type on: m holds the service-centre address, rest
\* are the octets after the SMSC prefix
ReadFromTpdu(m, n1, rest) ==
    IF Len(rest) < 1 THEN [s |-> m, n |-> n1 + 1, err |-> "EOF"]
    ELSE LET m1 == [m EXCEPT !.Type = rest[1] % 4]
         IN  CASE m1.Type = MessageTypes.Deliver ->
                      ReadFromResult(n1, decodeDeliver(m1, rest))
               [] m1.Type = MessageTypes.Submit ->
                      ReadFromResult(n1, decodeSubmit(m1, rest))
               [] m1.Type = MessageTypes.StatusReport ->
                      ReadFromResult(n1, decodeStatusReport(m1, rest))
               [] OTHER -> [s |-> m1, n |-> n1, err |-> "ErrUnknownMessageType"]

\* Message.ReadFrom once io.ReadFull has returned the SMSC address octets
ReadFromAddress(octs, addr) ==
    IF addr.err # "nil" THEN [s |-> ZeroMessage, n |-> 1 + addr.off, err |-> addr.err]
    ELSE ReadFromTpdu([ZeroMessage EXCEPT
                          !.ServiceCenterAddress = PhoneNumberReadFrom(<<>>, addr.data).p],
                      1 + addr.off, Drop(octs, 1 + octs[1]))

\* Message.ReadFrom: [s, n, err]
MessageReadFrom(octs) ==
    IF Len(octs) < 1 THEN [s |-> ZeroMessage, n |-> 1, err |-> "EOF"]
    ELSE IF octs[1] > 16 THEN [s |-> ZeroMessage, n |-> 0, err |-> "ErrIncorrectSize"]
    ELSE ReadFromAddress(octs, ReadFull(Drop(octs, 1), octs[1]))

\* ------------------------------------------------------------------------
\* Inputs of the codec
\* ------------------------------------------------------------------------

\* all sequences over S of length at most k
RECURSIVE SeqsUpTo(_, _)
SeqsUpTo(S, k) ==
    IF k = 0 THEN { <<>> }
    ELSE LET shorter == SeqsUpTo(S, k - 1)
         IN  shorter \cup { Append(x, c) : x \in shorter, c \in S }

\* characters of the texts: A, capital delta (default alphabet, two UTF-8
\* bytes), left square bracket (extension table), grinning face (outside
\* the BMP and outside the GSM alphabet)
TextAlphabet == { 65, 916, 91, 128512 }

Texts == SeqsUpTo(TextAlphabet, MaxTextLen)

\* +79, 123, +4917
Addresses == { << 43, 55, 57 >>, << 49, 50, 51 >>, << 43, 52, 57, 49, 55 >> }

ServiceCenterAddresses == { <<>> } \cup Addresses

Time(y, mo, d, h, mi, sec, off) ==
    [year |-> y, month |-> mo, day |-> d, hour |-> h, minute |-> mi, second |-> sec,
     offset |-> off]

\* service-centre times: +04:00, +01:00, -03:00, +08:15, -08:15, UTC, +10:00
Times ==
    { Time(2014, 6, 26, 21, 36, 30, 14400), Time(2022, 2, 16, 15, 54, 47, 3600),
      Time(2017, 9, 22, 21, 24, 51, -10800), Time(2021, 3, 4, 5, 6, 7, 29700),
      Time(2021, 3, 4, 5, 6, 7, -29700), Time(2099, 12, 31, 23, 59, 59, 0),
      Time(2000, 1, 1, 0, 0, 0, 36000) }

\* validity periods in seconds: 0, 5 min, 1 h, 4 days, 5 weeks
ValidityPeriods == { 0, 300, 3600, 345600, 3024000 }

DataCodingSchemes == { 0, 1, 17, 8, 4 }

FlagNames ==
    { "ReplyPathExists", "UserDataStartsWithHeader", "StatusReportIndication",
      "StatusReportRequest", "StatusReportQualificator", "MoreMessagesToSend",
      "LoopPrevention", "RejectDuplicates" }

WithFlags(m, on) ==
    [m EXCEPT !.ReplyPathExists = "ReplyPathExists" \in on,
              !.UserDataStartsWithHeader = "UserDataStartsWithHeader" \in on,
              !.StatusReportIndication = "StatusReportIndication" \in on,
              !.StatusReportRequest = "StatusReportRequest" \in on,
              !.StatusReportQualificator = "StatusReportQualificator" \in on,
              !.MoreMessagesToSend = "MoreMessagesToSend" \in on,
              !.LoopPrevention = "LoopPrevention" \in on,
              !.RejectDuplicates = "RejectDuplicates" \in on]

\* a plain message of each type
BaseMessage(type) ==
    LET m == [ZeroMessage EXCEPT !.Type = type, !.Text = << 65 >>,
                                 !.Address = << 43, 55, 57 >>,
                                 !.ServiceCenterAddress = << 43, 55, 57 >>]
    IN  CASE type = MessageTypes.Deliver ->
                [m EXCEPT !.ServiceCenterTime = Time(2014, 6, 26, 21, 36, 30, 14400)]
          [] type = MessageTypes.Submit ->
                [m EXCEPT !.VPFormat = ValidityPeriodFormats.Relative, !.VP = 345600]
          [] type = MessageTypes.StatusReport ->
                [m EXCEPT !.Text = <<>>,
                          !.ServiceCenterTime = Time(2022, 2, 16, 15, 54, 47, 3600),
                          !.DischargeTime = Time(2022, 2, 16, 15, 54, 48, 3600),
                          !.MessageReference = 54]

\* "crap" and capital delta, the text of the tests
CrapDelta == << 99, 114, 97, 112, 32, 916 >>

TpduTypes == { MessageTypes.Deliver, MessageTypes.Submit, MessageTypes.StatusReport }

\* the messages handed to PDU: each group varies some fields of a plain message
Messages ==
    { WithFlags(BaseMessage(ty), on) : ty \in TpduTypes, on \in SUBSET FlagNames }
    \cup { [BaseMessage(ty) EXCEPT !.Encoding = e, !.Text = txt] :
               ty \in TpduTypes, e \in DataCodingSchemes, txt \in Texts }
    \cup { [BaseMessage(ty) EXCEPT !.ServiceCenterAddress = sca, !.Address = a] :
               ty \in TpduTypes, sca \in ServiceCenterAddresses, a \in Addresses }
    \cup { [BaseMessage(ty) EXCEPT !.Text = CrapDelta] : ty \in TpduTypes }
    \cup { [BaseMessage(MessageTypes.Deliver) EXCEPT !.ServiceCenterTime = ts] : ts \in Times }
    \cup { [BaseMessage(MessageTypes.StatusReport) EXCEPT
               !.ServiceCenterTime = ts, !.DischargeTime = dt, !.Status = st] :
               ts \in Times, dt \in Times, st \in { 0, 33 } }
    \cup { [BaseMessage(MessageTypes.Submit) EXCEPT
               !.VPFormat = f, !.VP = vp, !.MessageReference = mr] :
               f \in { 0, 1, 2, 3 }, vp \in ValidityPeriods, mr \in { 0, 255 } }

\* SMSC prefixes: none, +79, +7921, network-specific 79
SmscFields == { << 0 >>, << 2, 145, 151 >>, << 3, 145, 151, 18 >>, << 2, 177, 151 >> }

\* address fields: +79, national 123, alphanumeric "ab", network-specific 79
AddressFields ==
    { << 2, 145, 151 >>, << 3, 161, 33, 243 >>, << 4, 208, 97, 49 >>, << 2, 177, 151 >> }

\* timestamps: 2014-06-26T21:36:30+04:00, 2021-03-04T05:06:07 with zone
\* octets 0x33 and 0x3B, 2017-09-22T21:24:51 with zone octet 0x29,
\* 2000-01-01T00:00:00 with zone octet 0x04
TimestampFields ==
    { << 65, 96, 98, 18, 99, 3, 97 >>, << 18, 48, 64, 80, 96, 112, 51 >>,
      << 18, 48, 64, 80, 96, 112, 59 >>, << 113, 144, 34, 18, 66, 21, 41 >>,
      << 0, 16, 16, 0, 0, 0, 4 >> }

\* a concatenation header: length 5, IE 0x00 of length 3, reference 204,
\* 2 parts, part 1
ConcatHeader == << 5, 0, 3, 204, 2, 1 >>

\* user data with its length octet, counted in septets: "A", "", "crap"
\* and capital delta (6 septets), "AAAAAAA" with a zero fill septet
PlainUserData7 ==
    { [udl |-> 1, ud |-> << 65 >>], [udl |-> 0, ud |-> <<>>],
      [udl |-> 6, ud |-> << 99, 121, 24, 14, 130, 0 >>],
      [udl |-> 7, ud |-> << 193, 96, 48, 24, 12, 6, 1 >>] }

\* user data counted in octets: one and two UCS-2 characters
PlainUserData8 ==
    { [udl |-> 2, ud |-> << 4, 45 >>], [udl |-> 4, ud |-> << 4, 45, 0, 65 >>] }

\* user data that starts with a header: "A" after a fill bit (8 septets)
HeaderUserData7 == { [udl |-> 8, ud |-> ConcatHeader \o << 130 >>] }

\* one and two UCS-2 characters after the header
HeaderUserData8 ==
    { [udl |-> 8, ud |-> ConcatHeader \o << 4, 45 >>],
      [udl |-> 10, ud |-> ConcatHeader \o << 4, 45, 0, 65 >>] }

UserDataFields ==
    PlainUserData7 \cup PlainUserData8 \cup HeaderUserData7 \cup HeaderUserData8

DataCodingSchemes7 == { 0, 1, 17 }

\* the user data a TPDU with this coding scheme and this header indicator
\* carries
UserDataFor(dcs, udhi) ==
    IF dcs \in DataCodingSchemes7
    THEN (IF udhi THEN HeaderUserData7 ELSE PlainUserData7)
    ELSE (IF udhi THEN HeaderUserData8 ELSE PlainUserData8)

\* wellFormed asks for user data that agrees with the TPDU's coding scheme
\* and header indicator
Agree(wellFormed, dcs, udhi, u) == wellFormed => u \in UserDataFor(dcs, udhi)

\* an octet with exactly the bits of the set on
BitsOn(on) == BitsValue([i \in 1..8 |-> IF (i - 1) \in on THEN 1 ELSE 0])

DeliverTpdu(header, oa, pid, dcs, scts, u) ==
    << header >> \o oa \o << pid, dcs >> \o scts \o << u.udl >> \o u.ud

SubmitTpdu(header, mr, da, pid, dcs, vp, u) ==
    << header, mr >> \o da \o << pid, dcs >> \o vp \o << u.udl >> \o u.ud

StatusReportTpdu(header, mr, da, scts, dt, st, trailer) ==
    << header, mr >> \o da \o scts \o dt \o << st >> \o trailer

\* validity-period fields by format: none, one octet, seven octets
\* (enhanced: relative-integer 3 seconds; absolute: a timestamp)
VpFields(vpf) ==
    CASE vpf = ValidityPeriodFormats.FieldNotPresent -> { <<>> }
      [] vpf = ValidityPeriodFormats.Relative -> { << 170 >>, << 0 >>, << 144 >>, << 255 >> }
      [] vpf = ValidityPeriodFormats.Enhanced -> { << 66, 3, 0, 0, 0, 0, 0 >> }
      [] vpf = ValidityPeriodFormats.Absolute -> { << 65, 96, 98, 18, 99, 3, 97 >> }

\* what follows the Status octet of a status report: nothing, a parameter
\* indicator that announces no user data, or one that announces user data
\* in one of the coding schemes
StatusReportTrailers(wellFormed, udhi, schemes) ==
    { tr \in { <<>>, << 0 >>, << 1, 127 >>, << 2, 8 >>, << 3, 127, 0 >> } : wellFormed => ~udhi }
    \cup { << 4, u.udl >> \o u.ud : u \in { v \in UserDataFields : Agree(wellFormed, 0, udhi, v) } }
    \cup { << 6, x[1], x[2].udl >> \o x[2].ud :
               x \in { y \in schemes \X UserDataFields : Agree(wellFormed, y[1], udhi, y[2]) } }
    \cup { << 7, 127, x[1], x[2].udl >> \o x[2].ud :
               x \in { y \in { 8 } \X UserDataFields : Agree(wellFormed, y[1], udhi, y[2]) } }

TS0 == << 65, 96, 98, 18, 99, 3, 97 >>
OA0 == << 2, 145, 151 >>
UD0 == [udl |-> 1, ud |-> << 65 >>]

DeliverTpdus(wellFormed) ==
    { DeliverTpdu(BitsOn(x[1]), OA0, 0, x[2], TS0, x[3]) :
          x \in { y \in (SUBSET { 2, 3, 4, 5, 6, 7 }) \X { 0, 8 } \X UserDataFields :
                      Agree(wellFormed, y[2], 6 \in y[1], y[3]) } }
    \cup { DeliverTpdu(x[1], OA0, x[2], x[3], TS0, x[4]) :
          x \in { y \in { 4, 68 } \X { 0, 127 } \X DataCodingSchemes \X UserDataFields :
                      Agree(wellFormed, y[3], y[1] = 68, y[4]) } }
    \cup { DeliverTpdu(4, oa, 0, 0, scts, UD0) : oa \in AddressFields, scts \in TimestampFields }

SubmitTpdus(wellFormed) ==
    { SubmitTpdu(BitsOn(x[1] \cup { 0 }) + 8 * x[2], 0, OA0, 0, x[3],
                 IF x[2] = 0 THEN <<>> ELSE << 170 >>, x[4]) :
          x \in { y \in (SUBSET { 2, 5, 6, 7 }) \X { 0, 2 } \X { 0, 8 } \X UserDataFields :
                      Agree(wellFormed, y[3], 6 \in y[1], y[4]) } }
    \cup { SubmitTpdu(x[1], 0, OA0, x[2], x[3], << 170 >>, x[4]) :
          x \in { y \in { 17, 81 } \X { 0, 127 } \X DataCodingSchemes \X UserDataFields :
                      Agree(wellFormed, y[3], y[1] = 81, y[4]) } }
    \cup UNION { { SubmitTpdu(1 + 8 * vpf, mr, OA0, 0, 0, vp, u) :
                       vp \in VpFields(vpf), mr \in { 0, 54 }, u \in PlainUserData7 } :
                 vpf \in { 0, 1, 2, 3 } }
    \cup { SubmitTpdu(17, 0, da, 0, 8, << 170 >>, u) : da \in AddressFields, u \in PlainUserData8 }

StatusReportTpdus(wellFormed) ==
    UNION { { StatusReportTpdu(BitsOn(on \cup { 1 }), 54, OA0, TS0, TS0, 0, tr) :
                  tr \in StatusReportTrailers(wellFormed, 6 \in on, { 8 }) } :
            on \in SUBSET { 2, 3, 4, 5, 6, 7 } }
    \cup UNION { { StatusReportTpdu(h, 54, OA0, TS0, TS0, st, tr) :
                       st \in { 0, 33 },
                       tr \in StatusReportTrailers(wellFormed, h = 70, DataCodingSchemes) } :
                 h \in { 6, 70 } }
    \cup { StatusReportTpdu(6, mr, da, TS0, TS0, 0, << 0 >>) :
          mr \in { 0, 54 }, da \in AddressFields }
    \cup { StatusReportTpdu(6, 54, OA0, scts, dt, 0, << 0 >>) :
          scts \in TimestampFields, dt \in TimestampFields }

\* a TPDU of each kind behind every SMSC prefix
PrefixedTpdus ==
    { smsc \o tpdu : smsc \in SmscFields,
                     tpdu \in { DeliverTpdu(4, OA0, 0, 0, TS0, UD0),
                                SubmitTpdu(17, 0, OA0, 0, 0, << 170 >>, UD0),
                                StatusReportTpdu(6, 54, OA0, TS0, TS0, 0, << 0 >>) } }

PdusOf(wellFormed) ==
    PrefixedTpdus
    \cup { << 0 >> \o tpdu : tpdu \in DeliverTpdus(wellFormed) \cup SubmitTpdus(wellFormed)
                                        \cup StatusReportTpdus(wellFormed) }

\* an SMSC prefix followed by exactly one complete TPDU: every declared field
\* octet present, no trailing octets, user data as the header declares it
CompletePdus == PdusOf(TRUE)

\* an address field that announces this many digits, all of them present
LongAddress(digits) == << digits, 145 >> \o [i \in 1..((digits + 1) \div 2) |-> 33]

\* an SMSC prefix of this many octets after the length octet
LongSmsc(len) == << len, 145 >> \o [i \in 1..(len - 1) |-> 33]

\* PDUs with an SMSC or an address longer than 16: every octet they announce
\* is there
OversizedPdus ==
    { LongSmsc(len) \o DeliverTpdu(4, OA0, 0, 0, TS0, UD0) : len \in { 17, 22 } }
    \cup { << 0 >> \o DeliverTpdu(4, LongAddress(d), 0, 0, TS0, UD0) : d \in { 17, 22 } }
    \cup { << 0 >> \o SubmitTpdu(17, 0, LongAddress(d), 0, 0, << 170 >>, UD0) : d \in { 17, 22 } }
    \cup { << 0 >> \o StatusReportTpdu(6, 54, LongAddress(d), TS0, TS0, 0, << 0 >>) :
               d \in { 17, 22 } }

\* the fixed-width part of a PDU of each kind behind the SMSC +79: up to the
\* length octet of the user data, or the Status octet of a status report
FixedParts ==
    { << 2, 145, 151, 4 >> \o OA0 \o << 0, 0 >> \o TS0 \o << 1 >>,
      << 2, 145, 151, 17, 0 >> \o OA0 \o << 0, 0, 170, 1 >>,
      << 2, 145, 151, 6, 54 >> \o OA0 \o TS0 \o TS0 \o << 0 >> }

\* input that ends before the fixed-width part is complete
TruncatedPdus == UNION { { Take(f, k) : k \in 1..(Len(f) - 1) } : f \in FixedParts }

\* the octet sequences handed to ReadFrom
Pdus == PdusOf(FALSE) \cup OversizedPdus \cup TruncatedPdus

\* ------------------------------------------------------------------------
\* The codec in use: a caller holds a Message s and a buffer of octets and
\* calls PDU and ReadFrom on them
\* ------------------------------------------------------------------------

Init ==
    /\ NoDevice
    /\ \/ \E m \in Messages :
            /\ orig = [kind |-> "msg", msg |-> m, octets |-> <<>>]
            /\ s = m
            /\ octets = <<>>
       \/ \E p \in Pdus :
            /\ orig = [kind |-> "pdu", msg |-> ZeroMessage, octets |-> p]
            /\ s = ZeroMessage
            /\ octets = p
    /\ t = ZeroTime
    /\ n = 0
    /\ err = "nil"
    /\ ops = <<>>

\* n, octets, err := s.PDU()
PDU ==
    /\ \/ ops = <<>> /\ orig.kind = "msg"
       \/ ops = << "ReadFrom" >> /\ err = "nil"
    /\ LET r == MessagePDU(s)
       IN  /\ n' = r.n
           /\ octets' = r.octets
           /\ err' = r.err
    /\ ops' = Append(ops, "PDU")
    /\ UNCHANGED << orig, s, t >>
    /\ UNCHANGED modemVars

\* n, err := s.ReadFrom(octets)
ReadFrom ==
    /\ \/ ops = <<>> /\ orig.kind = "pdu"
       \/ ops = << "PDU" >> /\ err = "nil"
    /\ LET r == MessageReadFrom(octets)
       IN  /\ s' = r.s
           /\ n' = r.n
           /\ err' = r.err
    /\ ops' = Append(ops, "ReadFrom")
    /\ UNCHANGED << orig, t, octets >>
    /\ UNCHANGED modemVars

Next == PDU \/ ReadFrom

Spec == Init /\ [][Next]_vars

\* ------------------------------------------------------------------------
\* The timestamp codec in use: a caller holds a Timestamp t and seven octets
\* ------------------------------------------------------------------------

\* zone offsets in seconds: the multiples of 15 minutes from -12:00 to +14:00
ZoneOffsets == { q * 900 : q \in (0 - 48)..56 }

TimestampInputs ==
    { Time(x[1], x[2], x[3], x[4], x[5], x[6], off) :
          x \in { << 2021, 3, 4, 5, 6, 7 >>, << 2000, 1, 1, 0, 0, 0 >>,
                  << 2099, 12, 31, 23, 59, 59 >> },
          off \in ZoneOffsets }

\* the zone octet of a number of quarters of an hour east of GMT, and west
\* of it (bit 3 of the octet is the sign)
ZoneOctetEast(q) == (q % 10) * 16 + (q \div 10)
ZoneOctetWest(q) == ZoneOctetEast(q) + 8

\* octets that are not a date: month 13, February 30th, and a second octet
\* whose low nibble is not a digit
InvalidDateOctets ==
    { << 18, 49, 64, 80, 96, 112, 0 >>,
      << 18, 32, 3, 80, 96, 112, 51 >>,
      << 18, 48, 64, 80, 96, 249, 0 >> }

\* octets given to Timestamp.ReadFrom: those of the PDUs, the ones above, 2021-03-04T05:06:07
\* in every zone from -12:00 to +14:00, and 2099-12-31T23:59:59Z
TimestampOctetInputs ==
    TimestampFields
    \cup { << 18, 48, 64, 80, 96, 112, ZoneOctetEast(q) >> : q \in 0..56 }
    \cup { << 18, 48, 64, 80, 96, 112, ZoneOctetWest(q) >> : q \in 1..48 }
    \cup { << 153, 33, 19, 50, 149, 149, 0 >> }
    \cup InvalidDateOctets

InitTimestamp ==
    /\ NoDevice
    /\ \/ \E x \in TimestampInputs :
            /\ orig = [kind |-> "time", t |-> x, octets |-> <<>>]
            /\ t = x
            /\ octets = <<>>
       \/ \E o \in TimestampOctetInputs :
            /\ orig = [kind |-> "octets", t |-> ZeroTime, octets |-> o]
            /\ t = ZeroTime
            /\ octets = o
    /\ s = ZeroMessage
    /\ n = 0
    /\ err = "nil"
    /\ ops = <<>>

\* octets := t.PDU()
CallTimestampPDU ==
    /\ \/ ops = <<>> /\ orig.kind = "time"
       \/ ops = << "ReadFrom" >>
    /\ octets' = TimestampPDU(t)
    /\ ops' = Append(ops, "PDU")
    /\ UNCHANGED << orig, s, t, n, err >>
    /\ UNCHANGED modemVars

\* t.ReadFrom(octets)
CallTimestampReadFrom ==
    /\ \/ ops = <<>> /\ orig.kind = "octets"
       \/ ops = << "PDU" >>
    /\ t' = TimestampReadFrom(octets)
    /\ ops' = Append(ops, "ReadFrom")
    /\ UNCHANGED << orig, s, octets, n, err >>
    /\ UNCHANGED modemVars

NextTimestamp == CallTimestampPDU \/ CallTimestampReadFrom

SpecTimestamp == InitTimestamp /\ [][NextTimestamp]_vars

\* ------------------------------------------------------------------------
\* Properties
\* ------------------------------------------------------------------------

\* the last operation called
LastOp == IF ops = <<>> THEN "" ELSE ops[Len(ops)]

\* the data-coding-scheme values the codec is specified to support
SupportedDcs == { 0, 1, 17, 8 }

\* number of octets of the SMSC prefix, and the first octet of the TPDU (-1
\* when the input ends before it)
PrefixLen(octs) == 1 + octs[1]
TpduHeader(octs) ==
    IF Len(octs) > 0 /\ Len(octs) > PrefixLen(octs) THEN octs[PrefixLen(octs) + 1] ELSE 0 - 1

\* number of octets of an address field that announces this many digits
AddressFieldLen(digits) == 2 + (digits + 1) \div 2

\* position of the data-coding-scheme octet of a Deliver or Submit PDU
DcsIndex(octs) ==
    LET base == PrefixLen(octs)
    IN  IF TpduHeader(octs) % 4 = MessageTypes.Deliver
        THEN base + 1 + AddressFieldLen(octs[base + 2]) + 2
        ELSE base + 2 + AddressFieldLen(octs[base + 3]) + 2

\* position of the user-data-length octet of a Deliver PDU, or of a Submit
\* PDU with an absent or one-octet validity period
UdlIndex(octs) ==
    IF TpduHeader(octs) % 4 = MessageTypes.Deliver
    THEN DcsIndex(octs) + 8
    ELSE DcsIndex(octs) + 1
         + (IF (TpduHeader(octs) \div 8) % 4 = ValidityPeriodFormats.FieldNotPresent THEN 0 ELSE 1)

\* number of septets the text packs into
RECURSIVE SeptetCount(_)
SeptetCount(str) ==
    IF str = <<>> THEN 0 ELSE Len(Gsm7Septets(Head(str))) + SeptetCount(Tail(str))

\* number of digits of a phone number
DigitCount(number) == Cardinality({ i \in 1..Len(number) : IsDigit(number[i]) })

\* the message satisfies the invariants of the data model
SatisfiesInvariants(m) ==
    /\ m.Type \in TpduTypes
    /\ m.Encoding \in SupportedDcs
    /\ DigitCount(m.Address) <= 16
    /\ DigitCount(m.ServiceCenterAddress) <= 16
    /\ m.VPFormat \in { ValidityPeriodFormats.FieldNotPresent, ValidityPeriodFormats.Relative }
    /\ m.Encoding # Encodings.UCS2 => \A i \in 1..Len(m.Text) : Is7BitEncodable(m.Text[i])

\* C1: ReadFrom applied to the octets that PDU returned for a message that
\* satisfies the data-model invariants succeeds and yields a Message equal to
\* the original in every field, the flags included.
RoundTripDecodeEncode ==
    (orig.kind = "msg" /\ ops = << "PDU", "ReadFrom" >> /\ SatisfiesInvariants(orig.msg))
        => (err = "nil" /\ s = orig.msg)

\* C2: PDU called on the Message that a successful ReadFrom decoded from p
\* succeeds and returns exactly p.
RoundTripEncodeDecode ==
    (orig.kind = "pdu" /\ ops = << "ReadFrom", "PDU" >>)
        => (err = "nil" /\ octets = orig.octets)

\* C3: ReadFrom on an SMS-SUBMIT PDU whose validity-period-format bits select
\* Enhanced or Absolute fails with ErrNonRelative.
NonRelativeRejected ==
    (/\ orig.kind = "pdu" /\ ops = << "ReadFrom" >>
     /\ TpduHeader(orig.octets) % 4 = MessageTypes.Submit
     /\ (TpduHeader(orig.octets) \div 8) % 4
            \in { ValidityPeriodFormats.Enhanced, ValidityPeriodFormats.Absolute })
        => err = "ErrNonRelative"

\* C4: ReadFrom on an SMSC prefix followed by exactly one complete TPDU
\* succeeds and returns the length of the input as its byte count.
CompleteReadFrom ==
    (orig.kind = "pdu" /\ ops = << "ReadFrom" >> /\ orig.octets \in CompletePdus)
        => (err = "nil" /\ n = Len(orig.octets))

\* number of SMSC address octets PDU writes for a service-centre address
ScaOctets(sca) == IF sca = <<>> THEN 0 ELSE 1 + (DigitCount(sca) + 1) \div 2

\* C5: when PDU succeeds, the returned n counts the TPDU octets only: the
\* length of the buffer less the SMSC length octet and the SMSC address
\* octets; with an empty ServiceCenterAddress the prefix is the single octet
\* 0x00 and n is the length of the buffer less one.
TpduLength ==
    (LastOp = "PDU" /\ err = "nil")
        => /\ octets[1] = ScaOctets(s.ServiceCenterAddress)
           /\ n = Len(octets) - 1 - ScaOctets(s.ServiceCenterAddress)
           /\ s.ServiceCenterAddress = <<>> => (octets[1] = 0 /\ n = Len(octets) - 1)

\* PDU has succeeded on a message with a service-centre address
TpduLengthWitness ==
    /\ ops = << "PDU" >> /\ err = "nil"
    /\ s.ServiceCenterAddress # <<>>
    /\ n < Len(octets) - 1

\* C6: the first TPDU octet of SMS-DELIVER has the same layout on encode and
\* on decode: bits 0..1 are 0b00, bit 2 is set iff MoreMessagesToSend is
\* false, bit 3 iff LoopPrevention, bit 4 iff StatusReportIndication, bit 6
\* iff UserDataStartsWithHeader, bit 7 iff ReplyPathExists, and the encoder
\* sets no other bit.
DeliverHeaderLayout ==
    LET Layout(h, m) ==
            /\ h % 4 = 0
            /\ (Bit(h, 2) = 1) = ~m.MoreMessagesToSend
            /\ (Bit(h, 3) = 1) = m.LoopPrevention
            /\ (Bit(h, 4) = 1) = m.StatusReportIndication
            /\ (Bit(h, 6) = 1) = m.UserDataStartsWithHeader
            /\ (Bit(h, 7) = 1) = m.ReplyPathExists
    IN  /\ (LastOp = "PDU" /\ err = "nil" /\ s.Type = MessageTypes.Deliver)
            => (Layout(TpduHeader(octets), s) /\ Bit(TpduHeader(octets), 5) = 0)
        /\ (LastOp = "ReadFrom" /\ err = "nil" /\ s.Type = MessageTypes.Deliver)
            => Layout(TpduHeader(octets), s)

\* C7: the first TPDU octet of SMS-STATUS-REPORT has the same layout on
\* encode and on decode: bits 0..1 are 0b10, bit 2 is set iff
\* MoreMessagesToSend is false, bit 3 iff LoopPrevention, bit 5 iff
\* StatusReportQualificator, bit 6 iff UserDataStartsWithHeader; a header
\* with only bit 5 set decodes to StatusReportQualificator = TRUE and one
\* with only bit 4 set does not.
StatusReportHeaderLayout ==
    LET Layout(h, m) ==
            /\ h % 4 = 2
            /\ (Bit(h, 2) = 1) = ~m.MoreMessagesToSend
            /\ (Bit(h, 3) = 1) = m.LoopPrevention
            /\ (Bit(h, 5) = 1) = m.StatusReportQualificator
            /\ (Bit(h, 6) = 1) = m.UserDataStartsWithHeader
    IN  (LastOp \in { "PDU", "ReadFrom" } /\ err = "nil" /\ s.Type = MessageTypes.StatusReport)
            => Layout(TpduHeader(octets), s)

\* C8: in the octets PDU returns for a Deliver or Submit message, the
\* user-data-length octet is the number of septets of the text when the
\* encoding is of the 7-bit family and the number of user-data octets when
\* the encoding is UCS-2; it is 6 for "crap" and capital delta in 7 bits.
UserDataLengthCount ==
    (/\ LastOp = "PDU" /\ err = "nil"
     /\ s.Type \in { MessageTypes.Deliver, MessageTypes.Submit })
        => LET udl == octets[UdlIndex(octets)]
           IN  /\ s.Encoding = Encodings.UCS2 => udl = Len(octets) - UdlIndex(octets)
               /\ s.Encoding # Encodings.UCS2 => udl = SeptetCount(s.Text)
               /\ (s.Encoding # Encodings.UCS2 /\ s.Text = CrapDelta) => udl = 6

\* C9: PDU and ReadFrom fail with ErrUnknownEncoding exactly on the
\* data-coding-scheme values other than 0x00, 0x01, 0x11 and 0x08.
DcsTable ==
    /\ (orig.kind = "msg" /\ ops = << "PDU" >>
        /\ orig.msg.VPFormat \in { ValidityPeriodFormats.FieldNotPresent,
                                   ValidityPeriodFormats.Relative })
        => ((err = "ErrUnknownEncoding") = (orig.msg.Encoding \notin SupportedDcs))
    /\ (orig.kind = "pdu" /\ ops = << "ReadFrom" >> /\ orig.octets \in CompletePdus
        /\ TpduHeader(orig.octets) % 4 \in { MessageTypes.Deliver, MessageTypes.Submit }
        /\ (TpduHeader(orig.octets) \div 8) % 2 = 0)
        => ((err = "ErrUnknownEncoding")
                = (orig.octets[DcsIndex(orig.octets)] \notin SupportedDcs))

\* C10: ReadFrom applied to the octets of t.PDU() yields the instant and the
\* zone offset of t, for t in 2000..2099 with an offset that is a multiple of
\* 15 minutes from -12:00 to +14:00; 2021-03-04T05:06:07+08:15 encodes to
\* 12304050607033 and 2021-03-04T05:06:07-08:15 to 1230405060703B.
TimestampRoundTrip ==
    /\ (orig.kind = "time" /\ ops = << "PDU", "ReadFrom" >>) => t = orig.t
    /\ (orig.kind = "time" /\ ops = << "PDU" >> /\ t = Time(2021, 3, 4, 5, 6, 7, 29700))
        => octets = << 18, 48, 64, 80, 96, 112, 51 >>
    /\ (orig.kind = "time" /\ ops = << "PDU" >> /\ t = Time(2021, 3, 4, 5, 6, 7, 0 - 29700))
        => octets = << 18, 48, 64, 80, 96, 112, 59 >>

\* magnitude of a number
Abs(x) == IF x < 0 THEN 0 - x ELSE x

\* C11: Timestamp.ReadFrom yields a negative zone offset exactly when the
\* sign bit (bit 3) of the seventh octet is set, with a magnitude of 15
\* minutes times the two BCD digits of that octet without the sign bit:
\* 1230405060703B decodes to -08:15, 12304050607033 to +08:15, and every
\* positive offset of 0..56 quarters decodes as that positive offset.
TimestampSign ==
    (orig.kind = "octets" /\ ops = << "ReadFrom" >>)
        => LET zz == orig.octets[7]
               quarters == Decode(Swap(ClearBit(zz, 3)))
           IN  /\ Abs(t.offset) = 900 * quarters
               /\ Bit(zz, 3) = 0 => t.offset >= 0
               /\ (Bit(zz, 3) = 1 /\ quarters > 0) => t.offset < 0
               /\ orig.octets = << 18, 48, 64, 80, 96, 112, 59 >> => t.offset = 0 - 29700
               /\ orig.octets = << 18, 48, 64, 80, 96, 112, 51 >> => t.offset = 29700

\* the value of a swapped BCD octet, and whether both its nibbles are digits
BcdValue(octet) == Decode(Swap(octet))
IsBcd(octet) == octet % 16 <= 9 /\ octet \div 16 <= 9

\* octets 0..5 are the BCD digits of a date of the calendar and a time of day
IsCalendarDate(octs) ==
    /\ \A i \in 1..6 : IsBcd(octs[i])
    /\ BcdValue(octs[2]) \in 1..12
    /\ BcdValue(octs[3]) \in
           1..DaysInMonth((NowYear \div 1000) * 1000 + BcdValue(octs[1]), BcdValue(octs[2]))
    /\ BcdValue(octs[4]) <= 23
    /\ BcdValue(octs[5]) <= 59
    /\ BcdValue(octs[6]) <= 59

\* the wall clock of t is the BCD values of octets 0..5 in the current
\* millennium, and its zone is quarters * 15 minutes east or west
ReadsAsWritten(octs) ==
    /\ t.year = (NowYear \div 1000) * 1000 + BcdValue(octs[1])
    /\ t.month = BcdValue(octs[2])
    /\ t.day = BcdValue(octs[3])
    /\ t.hour = BcdValue(octs[4])
    /\ t.minute = BcdValue(octs[5])
    /\ t.second = BcdValue(octs[6])
    /\ Abs(t.offset) = 900 * BcdValue(ClearBit(octs[7], 3))

\* C12 (as stated): for every seven octets, Timestamp.ReadFrom returns an
\* instant whose year (in the current millennium), month, day, hour, minute
\* and second, read in the decoded fixed offset, are the BCD values of octets
\* 0..5, in a zone of plus or minus quarters * 15 minutes.
TimestampFieldsAlways ==
    (orig.kind = "octets" /\ ops = << "ReadFrom" >>) => ReadsAsWritten(orig.octets)

\* C12 (amended): the same, for seven octets whose first six are the BCD
\* digits of a date of the calendar and a time of day; YY = 99 gives 2099.
TimestampFieldsRead ==
    (orig.kind = "octets" /\ ops = << "ReadFrom" >> /\ IsCalendarDate(orig.octets))
        => /\ ReadsAsWritten(orig.octets)
           /\ orig.octets[1] = 153 => t.year = 2099

TimestampFieldsReadWitness ==
    /\ orig.kind = "octets"
    /\ ops = << "ReadFrom" >>
    /\ IsCalendarDate(orig.octets)
    /\ orig.octets[7] = 59
    /\ t.offset # 0
    /\ t.hour = 5

\* ------------------------------------------------------------------------
\* RelativeValidityPeriod on its own: Octet, then ReadFrom on the octet
\* ------------------------------------------------------------------------

\* durations in seconds: four minutes to twenty in steps of 150 s, 11 h to
\* 25 h in quarters of an hour, 1 to 32 days in half days, 4 to 65 weeks in
\* half weeks
Durations ==
    { k * 150 : k \in 0..8 }
    \cup { k * 900 : k \in 44..100 }
    \cup { k * 43200 : k \in 2..64 }
    \cup { k * 302400 : k \in 8..130 }

InitValidityPeriod ==
    /\ NoDevice
    /\ \E d \in Durations : orig = [kind |-> "vp", d |-> d]
    /\ s = ZeroMessage
    /\ t = ZeroTime
    /\ octets = << >>
    /\ n = 0
    /\ err = "nil"
    /\ ops = << >>

\* v.Octet()
CallOctet ==
    /\ ops = << >>
    /\ octets' = << RelativeValidityPeriodOctet(orig.d) >>
    /\ ops' = << "Octet" >>
    /\ UNCHANGED << orig, s, t, n, err >>
    /\ UNCHANGED modemVars

\* v.ReadFrom(oct) on the octet that Octet returned; n is the duration read
CallRelativeReadFrom ==
    /\ ops = << "Octet" >>
    /\ n' = RelativeValidityPeriodReadFrom(octets[1])
    /\ ops' = << "Octet", "ReadFrom" >>
    /\ UNCHANGED << orig, s, t, octets, err >>
    /\ UNCHANGED modemVars

NextValidityPeriod == CallOctet \/ CallRelativeReadFrom

SpecValidityPeriod == InitValidityPeriod /\ [][NextValidityPeriod]_vars

\* the table of the validity period octet, in seconds
TableOctet(d) ==
    IF d < 300 THEN 0
    ELSE IF d < 43200 THEN d \div 300
    ELSE IF d < 86400 THEN 143 + ((d - 43200) \div 1800)
    ELSE IF d < 2678400 THEN 166 + (d \div 86400)
    ELSE IF d \div 604800 > 62 THEN 255
    ELSE 192 + (d \div 604800)

\* the step of the table in the range of d
Granule(d) ==
    IF d < 43200 THEN 300
    ELSE IF d < 86400 THEN 1800
    ELSE IF d < 2678400 THEN 86400
    ELSE 604800

\* C13: RelativeValidityPeriod.Octet is the piecewise table (0 below five
\* minutes, d / 5 min below 12 h, 143 + (d - 12 h) / 30 min below 24 h,
\* 166 + d / 24 h below 744 h, 192 + d / 1 week above, 0xFF beyond 62
\* weeks), so it never decreases when d grows, and ReadFrom of the octet is
\* never more than one granule of d's range above d.
ValidityPeriodTable ==
    /\ (orig.kind = "vp" /\ ops # << >>)
            => /\ octets[1] = TableOctet(orig.d)
               /\ \A d \in Durations :
                      d <= orig.d => RelativeValidityPeriodOctet(d) <= octets[1]
    /\ (orig.kind = "vp" /\ ops = << "Octet", "ReadFrom" >>)
            => n <= orig.d + Granule(orig.d)

\* ------------------------------------------------------------------------
\* sms/status.go: the category of a status octet
\* ------------------------------------------------------------------------

StatusCategories ==
    [Complete |-> 0, TemporaryError |-> 1, PermanentError |-> 2, FinalError |-> 4,
     Unknown |-> 128]

\* StatusCodes.Category
StatusCategory(st) ==
    IF \/ (3 >= st /\ st <= 16)
       \/ (38 >= st /\ st <= 63)
       \/ (74 >= st /\ st <= 95)
       \/ (102 >= st /\ st <= 255)
    THEN StatusCategories.Unknown
    ELSE (st \div 32) % 4

\* every octet is a Status
Statuses == 0..255

InitStatus ==
    /\ NoDevice
    /\ \E st \in Statuses : orig = [kind |-> "status", status |-> st]
    /\ s = ZeroMessage
    /\ t = ZeroTime
    /\ octets = << >>
    /\ n = 0
    /\ err = "nil"
    /\ ops = << >>

\* StatusCodes.Category(status); n is the category returned
CallCategory ==
    /\ ops = << >>
    /\ n' = StatusCategory(orig.status)
    /\ ops' = << "Category" >>
    /\ UNCHANGED << orig, s, t, octets, err >>
    /\ UNCHANGED modemVars

NextStatus == CallCategory

SpecStatus == InitStatus /\ [][NextStatus]_vars

\* C14: the status octets 0x00..0x02 are of category Complete, 0x20..0x25
\* of TemporaryError, 0x40..0x49 of PermanentError and 0x60..0x65 of
\* FinalError.
StatusCategoryNamed ==
    (orig.kind = "status" /\ ops = << "Category" >>)
        => /\ orig.status \in 0..2 => n = StatusCategories.Complete
           /\ orig.status \in 32..37 => n = StatusCategories.TemporaryError
           /\ orig.status \in 64..73 => n = StatusCategories.PermanentError
           /\ orig.status \in 96..101 => n = StatusCategories.FinalError

\* C15: every other status octet of 0..255, reserved or specific to a
\* service centre (0x66..0x7F and 0x80..0xFF among them), is of category
\* Unknown.
StatusCategoryUnknown ==
    (orig.kind = "status" /\ ops = << "Category" >>
        /\ orig.status \notin (0..2) \cup (32..37) \cup (64..73) \cup (96..101))
        => n = StatusCategories.Unknown

\* ------------------------------------------------------------------------
\* PhoneNumber on its own: PDU, then ReadFrom on the octets
\* ------------------------------------------------------------------------

\* longest enumerated digit string
MaxDigits == 3

\* phone numbers: the digits 0, 1 and 9 in every order up to MaxDigits,
\* 0123456789, 123456789 and a number of 16 digits, each with and without
\* a leading +
DigitStrings ==
    (SeqsUpTo({ 48, 49, 57 }, MaxDigits) \ { << >> })
    \cup { << 48, 49, 50, 51, 52, 53, 54, 55, 56, 57 >>,
           << 49, 50, 51, 52, 53, 54, 55, 56, 57 >>,
           << 57, 56, 55, 54, 53, 52, 51, 50, 49, 48, 49, 50, 51, 52, 53, 54 >> }

PhoneNumbers == DigitStrings \cup { << 43 >> \o d : d \in DigitStrings }

InitPhoneNumber ==
    /\ NoDevice
    /\ \E p \in PhoneNumbers : orig = [kind |-> "number", p |-> p]
    /\ s = ZeroMessage
    /\ t = ZeroTime
    /\ octets = << >>
    /\ n = 0
    /\ err = "nil"
    /\ ops = << >>

\* p.PDU()
CallPhoneNumberPDU ==
    /\ ops = << >>
    /\ LET r == PhoneNumberPDU(orig.p)
       IN  /\ n' = r.n
           /\ octets' = r.octets
           /\ err' = r.err
    /\ ops' = << "PDU" >>
    /\ UNCHANGED << orig, s, t >>
    /\ UNCHANGED modemVars

\* q.ReadFrom(octets) of a zero PhoneNumber q, kept in s.Address
CallPhoneNumberReadFrom ==
    /\ ops = << "PDU" >>
    /\ err = "nil"
    /\ LET r == PhoneNumberReadFrom(<< >>, octets)
       IN  /\ s' = [s EXCEPT !.Address = r.p]
           /\ err' = r.err
    /\ ops' = << "PDU", "ReadFrom" >>
    /\ UNCHANGED << orig, t, octets, n >>
    /\ UNCHANGED modemVars

NextPhoneNumber == CallPhoneNumberPDU \/ CallPhoneNumberReadFrom

SpecPhoneNumber == InitPhoneNumber /\ [][NextPhoneNumber]_vars

\* number of digits in the semi-octets that follow a type octet
PackedDigits(octs) ==
    IF Len(octs) < 2 THEN 0
    ELSE 2 * (Len(octs) - 1) - (IF octs[Len(octs)] \div 16 = 15 THEN 1 ELSE 0)

\* C16: for a phone number of an optional + and 1..16 digits, leading zeros
\* included (0123456789), PhoneNumber.ReadFrom on the type octet and
\* semi-octets of PhoneNumber.PDU yields the number again, and the digit
\* count that PDU returns is the number of digits packed in the semi-octets.
PhoneNumberRoundTrip ==
    /\ (orig.kind = "number" /\ ops # << >>)
            => /\ ops = << "PDU" >> => err = "nil"
               /\ n = PackedDigits(octets)
    /\ (orig.kind = "number" /\ ops = << "PDU", "ReadFrom" >>)
            => /\ err = "nil"
               /\ s.Address = orig.p

\* the type-of-number of a type-of-address octet is one that
\* PhoneNumber.ReadFrom has no case for
UnsupportedTon(toa) ==
    ((toa \div 16) % 8) * 16 \notin { PhoneNumberTypes.International,
                                      PhoneNumberTypes.National,
                                      PhoneNumberTypes.Alphanumeric }

\* position of the type-of-address octet of the originating or destination
\* address of a PDU
ToaIndex(octs) ==
    IF TpduHeader(octs) % 4 = MessageTypes.Deliver
    THEN PrefixLen(octs) + 3
    ELSE PrefixLen(octs) + 4

\* C17: Message.ReadFrom on a PDU whose SMSC, originating or destination
\* address has a type-of-number other than International, National and
\* Alphanumeric fails with ErrUnsupportedTypeOfNumber, and never succeeds
\* with an empty address.
UnsupportedTypeRejected ==
    (orig.kind = "pdu" /\ ops = << "ReadFrom" >> /\ orig.octets \in CompletePdus
        /\ \/ (orig.octets[1] > 0 /\ UnsupportedTon(orig.octets[2]))
           \/ UnsupportedTon(orig.octets[ToaIndex(orig.octets)]))
        => err = "ErrUnsupportedTypeOfNumber"

\* C18: Message.ReadFrom fails with ErrIncorrectSize on every PDU whose
\* SMSC length octet is above 16 or whose originating or destination
\* address-length octet is above 16, be it a Deliver, a Submit or a
\* StatusReport.
OversizedRejected ==
    (orig.kind = "pdu" /\ ops = << "ReadFrom" >> /\ orig.octets \in OversizedPdus
        /\ \/ orig.octets[1] > 16
           \/ orig.octets[ToaIndex(orig.octets) - 1] > 16)
        => err = "ErrIncorrectSize"

\* the errors of the codec that Message.ReadFrom can return
ErrorKinds ==
    { "ErrUnknownEncoding", "ErrUnknownMessageType", "ErrIncorrectSize", "ErrNonRelative",
      "ErrIncorrectUserDataHeaderLength", "ErrUnsupportedTypeOfNumber", "ErrUnevenNumber",
      "ErrIncorrectDataLength" }

\* C19: every error that Message.ReadFrom returns is one of the errors of
\* the codec, and on input that ends inside a fixed-width field (address
\* block, PID, DCS, timestamp, validity period, UDL) it fails with
\* ErrIncorrectSize, never succeeding and never with another error.
ErrorTaxonomy ==
    (orig.kind = "pdu" /\ ops = << "ReadFrom" >>)
        => /\ err \in { "nil" } \cup ErrorKinds
           /\ orig.octets \in TruncatedPdus => err = "ErrIncorrectSize"

\* ------------------------------------------------------------------------
\* The SMS-SUBMIT framer on its own: Bytes on a record, FromBytes on octets
\* ------------------------------------------------------------------------

\* smsSubmit records with a validity period of their format
SubmitRecords ==
    UNION { { [ MessageTypeIndicator    |-> MessageTypes.Submit,
                RejectDuplicates        |-> FALSE,
                ValidityPeriodFormat    |-> vpf,
                ReplyPath               |-> FALSE,
                UserDataHeaderIndicator |-> FALSE,
                StatusReportRequest     |-> srr,
                MessageReference        |-> 54,
                DestinationAddress      |-> OA0,
                ProtocolIdentifier      |-> 0,
                DataCodingScheme        |-> 0,
                ValidityPeriod          |-> vp,
                UserDataLength          |-> u.udl,
                UserData                |-> u.ud ] :
                  vp \in VpFields(vpf), srr \in BOOLEAN, u \in PlainUserData7 } :
            vpf \in { 0, 1, 2, 3 } }

InitSubmit ==
    /\ NoDevice
    /\ \/ \E r \in SubmitRecords :
            /\ orig = [kind |-> "sms", sms |-> r, octets |-> << >>]
            /\ s = r
            /\ octets = << >>
       \/ \E o \in SubmitTpdus(TRUE) :
            /\ orig = [kind |-> "tpdu", sms |-> << >>, octets |-> o]
            /\ s = << >>
            /\ octets = o
    /\ t = ZeroTime
    /\ n = 0
    /\ err = "nil"
    /\ ops = << >>

\* octets = s.Bytes()
CallSubmitBytes ==
    /\ \/ ops = << >> /\ orig.kind = "sms"
       \/ ops = << "FromBytes" >> /\ err = "nil"
    /\ octets' = smsSubmitBytes(s)
    /\ ops' = Append(ops, "Bytes")
    /\ UNCHANGED << orig, s, t, n, err >>
    /\ UNCHANGED modemVars

\* n, err = s.FromBytes(octets)
CallSubmitFromBytes ==
    /\ \/ ops = << >> /\ orig.kind = "tpdu"
       \/ ops = << "Bytes" >>
    /\ LET r == smsSubmitFromBytes(octets)
       IN  /\ s' = r.sms
           /\ n' = r.n
           /\ err' = r.err
    /\ ops' = Append(ops, "FromBytes")
    /\ UNCHANGED << orig, t, octets >>
    /\ UNCHANGED modemVars

NextSubmit == CallSubmitBytes \/ CallSubmitFromBytes

SpecSubmit == InitSubmit /\ [][NextSubmit]_vars

\* octets of the validity-period field of a format
VpOctets(vpf) ==
    CASE vpf = ValidityPeriodFormats.FieldNotPresent -> 0
      [] vpf = ValidityPeriodFormats.Relative -> 1
      [] OTHER -> 7

\* position of the UDL octet of a Submit TPDU: after header, reference,
\* address, PID, DCS and the validity-period field of the format in the
\* header
SubmitUdlIndex(octs) ==
    2 + AddressFieldLen(octs[3]) + 2 + VpOctets((octs[1] \div 8) % 4) + 1

\* C20: the SMS-SUBMIT framer emits and consumes no validity-period octet
\* for FieldNotPresent, one for Relative and seven for Enhanced and
\* Absolute, so the UDL octet is the one right after the validity-period
\* field.
SubmitValidityPeriodOctets ==
    /\ (orig.kind = "sms" /\ ops = << "Bytes" >>)
            => /\ Len(octets) = SubmitUdlIndex(octets) + Len(orig.sms.UserData)
               /\ octets[SubmitUdlIndex(octets)] = orig.sms.UserDataLength
    /\ (orig.kind = "tpdu" /\ ops = << "FromBytes" >>)
            => /\ err = "nil"
               /\ Len(s.ValidityPeriod) = VpOctets(s.ValidityPeriodFormat)
               /\ s.UserDataLength = orig.octets[SubmitUdlIndex(orig.octets)]

\* the PDUs that are neither cut short nor oversized
WholePdus == PdusOf(FALSE)

\* position of the Status octet of a StatusReport PDU
StatusIndex(octs) ==
    PrefixLen(octs) + 2 + AddressFieldLen(octs[PrefixLen(octs) + 3]) + 15

\* the user data of a whole PDU: the octets after the UDL octet; none in a
\* status report without a parameter indicator or with one that announces
\* no user data
UserDataOf(octs) ==
    IF TpduHeader(octs) % 4 = MessageTypes.StatusReport
    THEN LET pi == StatusIndex(octs) + 1
         IN  IF Len(octs) < pi \/ Bit(octs[pi], 2) = 0 THEN << >>
             ELSE Drop(octs, pi + Bit(octs[pi], 0) + Bit(octs[pi], 1) + 1)
    ELSE Drop(octs, UdlIndex(octs))

\* C21: when the UDHI bit of a decoded Deliver, Submit or StatusReport PDU is
\* set, ReadFrom either fails with ErrIncorrectUserDataHeaderLength (an
\* empty user data included) or returns a Message whose UserDataHeader has
\* Tag, TotalNumber and Sequence equal to octets 3, 4 and 5 of the user data.
HeaderDecoded ==
    (orig.kind = "pdu" /\ ops = << "ReadFrom" >> /\ orig.octets \in WholePdus
        /\ TpduHeader(orig.octets) % 4 \in TpduTypes
        /\ Bit(TpduHeader(orig.octets), 6) = 1
        /\ (TpduHeader(orig.octets) % 4 = MessageTypes.Submit
                => (TpduHeader(orig.octets) \div 8) % 2 = 0))
        => LET ud == UserDataOf(orig.octets)
           IN  \/ err = "ErrIncorrectUserDataHeaderLength"
               \/ /\ err = "nil"
                  /\ Len(ud) >= 6
                  /\ s.UserDataHeader = [Tag |-> ud[4], TotalNumber |-> ud[5], Sequence |-> ud[6]]

\* a StatusReport PDU that ends with its Status octet
EndsAfterStatus(octs) ==
    /\ octs \in WholePdus
    /\ TpduHeader(octs) % 4 = MessageTypes.StatusReport
    /\ Len(octs) = StatusIndex(octs)

\* ReadFrom succeeded on all of the input and found no text and no coding
\* scheme
DecodedWithoutParameters ==
    /\ err = "nil"
    /\ n = Len(orig.octets)
    /\ s.Text = << >>
    /\ s.Encoding = 0

Ucs2Alphabet == { 65, 1069, 8364, 65535, 65536, 128512, 1114111 }

Ucs2Strings == SeqsUpTo(Ucs2Alphabet, MaxTextLen)

InitUcs2 ==
    /\ NoDevice
    /\ \E str \in Ucs2Strings : orig = [kind |-> "str", str |-> str]
    /\ s = ZeroMessage
    /\ t = ZeroTime
    /\ octets = << >>
    /\ n = 0
    /\ err = "nil"
    /\ ops = << >>

\* octets = pdu.EncodeUcs2(str)
CallEncodeUcs2 ==
    /\ ops = << >>
    /\ octets' = EncodeUcs2(orig.str)
    /\ ops' = << "EncodeUcs2" >>
    /\ UNCHANGED << orig, s, t, n, err >>
    /\ UNCHANGED modemVars

\* str, err = pdu.DecodeUcs2(octets, false); the string is kept in s.Text
CallDecodeUcs2 ==
    /\ ops = << "EncodeUcs2" >>
    /\ LET r == DecodeUcs2(octets, FALSE)
       IN  /\ s' = [s EXCEPT !.Text = r.str]
           /\ err' = r.err
    /\ ops' = << "EncodeUcs2", "DecodeUcs2" >>
    /\ UNCHANGED << orig, t, octets, n >>
    /\ UNCHANGED modemVars

NextUcs2 == CallEncodeUcs2 \/ CallDecodeUcs2

SpecUcs2 == InitUcs2 /\ [][NextUcs2]_vars

\* C23 (as stated): for every string that UTF-16 can represent, the empty
\* string and strings with characters outside the BMP included,
\* DecodeUcs2(EncodeUcs2(s), false) succeeds and returns s.
Ucs2RoundTripAlways ==
    (orig.kind = "str" /\ ops = << "EncodeUcs2", "DecodeUcs2" >>)
        => (err = "nil" /\ s.Text = orig.str)

\* C23 (amended): the same for every such string but the empty one, on
\* which DecodeUcs2 fails with ErrIncorrectDataLength.
Ucs2RoundTrip ==
    (orig.kind = "str" /\ ops = << "EncodeUcs2", "DecodeUcs2" >>)
        => IF orig.str = << >>
           THEN err = "ErrIncorrectDataLength"
           ELSE err = "nil" /\ s.Text = orig.str

Ucs2RoundTripWitness ==
    /\ orig.kind = "str"
    /\ ops = << "EncodeUcs2", "DecodeUcs2" >>
    /\ orig.str = << 128512, 65 >>
    /\ octets = << 216, 61, 222, 0, 0, 65 >>
    /\ s.Text = orig.str

\* ------------------------------------------------------------------------
\* sms/validity_period.go: the enhanced validity period
\* ------------------------------------------------------------------------

EnhancedValidityPeriodFormats ==
    [NotPresent |-> 0, Relative |-> 1, RelativeInteger |-> 2, RelativeSemiOctet |-> 3]

ZeroEnhancedValidityPeriod ==
    [ExtensionBit |-> FALSE, SingleShotSm |-> FALSE, EnhancedFormat |-> 0,
     RelativeVP |-> 0, RelativeIntegerVP |-> 0]

\* the fields that EnhancedValidityPeriod.ReadFrom takes from octet 0
EnhancedFlags(v, octs) ==
    [v EXCEPT !.ExtensionBit = Bit(octs[1], 7) # 0,
              !.SingleShotSm = Bit(octs[1], 6) # 0,
              !.EnhancedFormat = octs[1] % 8]

\* a ReadFrom that looks at the extension bit before the reserved bits
EnhancedValidityPeriodReadFromExtensionFirst(v, octs) ==
    IF Len(octs) # 7 THEN [v |-> v, err |-> "ErrIncorrectSize"]
    ELSE LET v1 == EnhancedFlags(v, octs)
         IN  IF v1.ExtensionBit THEN [v |-> v1, err |-> "ErrLongEnhancedVpNotSupported"]
             ELSE IF (octs[1] \div 8) % 8 # 0
             THEN [v |-> v1, err |-> "ErrUnknownEnhancedVpReservedBits"]
             ELSE IF v1.EnhancedFormat > 2 THEN [v |-> v1, err |-> "ErrUnknownVpf"]
             ELSE [v |-> v1, err |-> "nil"]

\* EnhancedValidityPeriod.ReadFrom: [v, err], v the receiver after the call
EnhancedValidityPeriodReadFrom(v, octs) ==
    IF Len(octs) # 7 THEN [v |-> v, err |-> "ErrIncorrectSize"]
    ELSE LET v1 == EnhancedFlags(v, octs)
             reservedBits == (octs[1] \div 8) % 8 # 0
         IN  IF reservedBits THEN [v |-> v1, err |-> "ErrUnknownEnhancedVpReservedBits"]
             ELSE IF v1.ExtensionBit THEN [v |-> v1, err |-> "ErrLongEnhancedVpNotSupported"]
             ELSE CASE v1.EnhancedFormat = EnhancedValidityPeriodFormats.NotPresent ->
                          [v |-> v1, err |-> "nil"]
                    [] v1.EnhancedFormat = EnhancedValidityPeriodFormats.Relative ->
                          [v |-> [v1 EXCEPT !.RelativeVP = RelativeValidityPeriodReadFrom(octs[2])],
                           err |-> "nil"]
                    [] v1.EnhancedFormat = EnhancedValidityPeriodFormats.RelativeInteger ->
                          [v |-> [v1 EXCEPT !.RelativeIntegerVP = octs[2]], err |-> "nil"]
                    [] OTHER -> [v |-> v1, err |-> "ErrUnknownVpf"]

\* octets given to EnhancedValidityPeriod.ReadFrom: every first octet with
\* three second octets in a field of seven, and fields of 0, 1, 6 and 8
\* octets
EnhancedOctets ==
    { << b, c, 0, 0, 0, 0, 0 >> : b \in 0..255, c \in { 0, 3, 170 } }
    \cup { << >>, << 1 >>, << 1, 170, 0, 0, 0, 0 >>, << 1, 170, 0, 0, 0, 0, 0, 0 >>,
           << 193, 170, 0, 0, 0, 0 >> }

InitEnhanced ==
    /\ NoDevice
    /\ \E o \in EnhancedOctets : orig = [kind |-> "enhanced", octets |-> o] /\ octets = o
    /\ s = ZeroEnhancedValidityPeriod
    /\ t = ZeroTime
    /\ n = 0
    /\ err = "nil"
    /\ ops = << >>

\* err = v.ReadFrom(octets); v is kept in s
CallEnhancedReadFrom ==
    /\ ops = << >>
    /\ LET r == EnhancedValidityPeriodReadFrom(s, octets)
       IN  /\ s' = r.v
           /\ err' = r.err
    /\ ops' = << "ReadFrom" >>
    /\ UNCHANGED << orig, t, octets, n >>
    /\ UNCHANGED modemVars

NextEnhanced == CallEnhancedReadFrom

SpecEnhanced == InitEnhanced /\ [][NextEnhanced]_vars

\* the error the order of tests of the enhanced validity period gives
EnhancedError(octs) ==
    IF Len(octs) # 7 THEN "ErrIncorrectSize"
    ELSE IF Bit(octs[1], 3) + Bit(octs[1], 4) + Bit(octs[1], 5) > 0
    THEN "ErrUnknownEnhancedVpReservedBits"
    ELSE IF Bit(octs[1], 7) = 1 THEN "ErrLongEnhancedVpNotSupported"
    ELSE IF octs[1] % 8 \notin { 0, 1, 2 } THEN "ErrUnknownVpf"
    ELSE "nil"

\* C24: EnhancedValidityPeriod.ReadFrom decides in this order: a length
\* other than 7 fails with ErrIncorrectSize; a bit of 3..5 of octet 0 set
\* fails with ErrUnknownEnhancedVpReservedBits; else bit 7 set fails with
\* ErrLongEnhancedVpNotSupported; else a sub-format other than NotPresent,
\* Relative and RelativeInteger fails with ErrUnknownVpf; else it succeeds
\* and the value of Relative and RelativeInteger comes from octet 1.
EnhancedReadFromOrder ==
    (orig.kind = "enhanced" /\ ops = << "ReadFrom" >>)
        => /\ err = EnhancedError(orig.octets)
           /\ (err = "nil" /\ orig.octets[1] % 8 = 1)
                  => s.RelativeVP = RelativeValidityPeriodReadFrom(orig.octets[2])
           /\ (err = "nil" /\ orig.octets[1] % 8 = 2)
                  => s.RelativeIntegerVP = orig.octets[2]

EnhancedReadFromOrderWitness ==
    /\ orig.kind = "enhanced"
    /\ ops = << "ReadFrom" >>
    /\ orig.octets = << 65, 170, 0, 0, 0, 0, 0 >>
    /\ err = "nil"
    /\ s.SingleShotSm
    /\ s.RelativeVP = 345600

\* ------------------------------------------------------------------------
\* opts.go: the tables of numerical options and their Resolve
\* ------------------------------------------------------------------------

Opt(id, description) == [ID |-> id, Description |-> description]

UnknownOpt == Opt(0 - 1, "-")

sim ==
    (0 :> Opt(0, "Invalid USIM card or pin code locked")) @@ (1 :> Opt(1, "Valid USIM card"))
    @@ (2 :> Opt(2, "USIM is invalid for cellular service"))
    @@ (3 :> Opt(3, "USIM is invalid for packet service"))
    @@ (4 :> Opt(4, "USIM is not valid for cellular nor packet services"))
    @@ (255 :> Opt(255, "USIM card is not exist"))

service ==
    (0 :> Opt(0, "No service")) @@ (1 :> Opt(1, "Restricted service"))
    @@ (2 :> Opt(2, "Valid service")) @@ (3 :> Opt(3, "Restricted regional service"))
    @@ (4 :> Opt(4, "Power-saving and deep sleep state"))

domain ==
    (0 :> Opt(0, "No service")) @@ (1 :> Opt(1, "Cellular service only"))
    @@ (2 :> Opt(2, "Packet service only")) @@ (3 :> Opt(3, "Packet and Cellular services"))
    @@ (4 :> Opt(4, "Searching"))

roaming == (0 :> Opt(0, "Non roaming")) @@ (1 :> Opt(1, "Roaming"))

mode ==
    (0 :> Opt(0, "No service")) @@ (1 :> Opt(1, "AMPS")) @@ (2 :> Opt(2, "CDMA"))
    @@ (3 :> Opt(3, "GSM/GPRS")) @@ (4 :> Opt(4, "HDR")) @@ (5 :> Opt(5, "WCDMA"))
    @@ (6 :> Opt(6, "GPS")) @@ (7 :> Opt(7, "GSM/WCDMA")) @@ (8 :> Opt(8, "CDMA/HDR HYBRID"))
    @@ (15 :> Opt(15, "TD-SCDMA"))

submode ==
    (0 :> Opt(0, "No service")) @@ (1 :> Opt(1, "GSM")) @@ (2 :> Opt(2, "GPRS"))
    @@ (3 :> Opt(3, "EDGE")) @@ (4 :> Opt(4, "WCDMA")) @@ (5 :> Opt(5, "HSDPA"))
    @@ (6 :> Opt(6, "HSUPA")) @@ (7 :> Opt(7, "HSDPA and HSUPA")) @@ (8 :> Opt(8, "TD-SCDMA"))
    @@ (9 :> Opt(9, "HSPA+")) @@ (17 :> Opt(17, "HSPA+(64QAM)")) @@ (18 :> Opt(18, "HSPA+(MIMO)"))

resultReporting ==
    (0 :> Opt(0, "Disabled")) @@ (1 :> Opt(1, "Enabled")) @@ (2 :> Opt(2, "Exit"))

delOpts ==
    (0 :> Opt(0, "Delete message by index")) @@ (1 :> Opt(1, "Delete all read messages except MO"))
    @@ (2 :> Opt(2, "Delete all read messages except unsent MO"))
    @@ (3 :> Opt(3, "Delete all except unread")) @@ (4 :> Opt(4, "Delete all messages"))

msgFlags ==
    (0 :> Opt(0, "Unread")) @@ (1 :> Opt(1, "Read")) @@ (2 :> Opt(2, "Unsent"))
    @@ (3 :> Opt(3, "Sent")) @@ (4 :> Opt(4, "Any"))

\* optMap.Resolve
OptMapResolve(o, id) == IF id \in DOMAIN o THEN o[id] ELSE UnknownOpt

\* the exported tables: Resolve is the map that the Resolve function of the
\* table looks in, entries the map that the named options of the table are
\* taken from
SimStates == [Resolve |-> sim, entries |-> sim]

ServiceStates == [Resolve |-> service, entries |-> service]

ServiceDomains == [Resolve |-> domain, entries |-> domain]

RoamingStates == [Resolve |-> roaming, entries |-> roaming]

SystemModes == [Resolve |-> mode, entries |-> mode]

SystemSubmodes == [Resolve |-> submode, entries |-> submode]

UssdResultReporting == [Resolve |-> resultReporting, entries |-> resultReporting]

DeleteOptions == [Resolve |-> resultReporting, entries |-> delOpts]

MessageFlags == [Resolve |-> resultReporting, entries |-> msgFlags]

OptionTables ==
    [SimStates |-> SimStates, ServiceStates |-> ServiceStates,
     ServiceDomains |-> ServiceDomains, RoamingStates |-> RoamingStates,
     SystemModes |-> SystemModes, SystemSubmodes |-> SystemSubmodes,
     UssdResultReporting |-> UssdResultReporting, DeleteOptions |-> DeleteOptions,
     MessageFlags |-> MessageFlags]

\* the numbers that are looked up: every ID of a table and numbers of none
OptionIds == ((0 - 1)..19) \cup { 255, 256 }

InitOptions ==
    /\ NoDevice
    /\ \E name \in DOMAIN OptionTables, id \in OptionIds :
           orig = [kind |-> "opt", table |-> name, id |-> id]
    /\ s = UnknownOpt
    /\ t = ZeroTime
    /\ octets = << >>
    /\ n = 0
    /\ err = "nil"
    /\ ops = << >>

\* s = <table>.Resolve(id)
CallResolve ==
    /\ ops = << >>
    /\ s' = OptMapResolve(OptionTables[orig.table].Resolve, orig.id)
    /\ ops' = << "Resolve" >>
    /\ UNCHANGED << orig, t, octets, n, err >>
    /\ UNCHANGED modemVars

NextOptions == CallResolve

SpecOptions == InitOptions /\ [][NextOptions]_vars

\* C26: Resolve(id) of a table of numerical options returns the entry of
\* that same table whose ID is id, and UnknownOpt when the table has no
\* entry with that ID.
ResolveOwnTable ==
    (orig.kind = "opt" /\ ops = << "Resolve" >>)
        => LET own == { e \in { OptionTables[orig.table].entries[k] :
                                    k \in DOMAIN OptionTables[orig.table].entries } :
                            e.ID = orig.id }
           IN  IF own = { } THEN s = UnknownOpt ELSE s \in own

\* ------------------------------------------------------------------------
\* at.go: a Device in use.  device holds the fields of the Device; a port
\* is a file [nil, open, closes], nil for no file, closes counting the calls of Close on
\* it; a channel without buffer is "nil", "open" or "closed".  pc holds for
\* every goroutine the statement it is at and its local values.
\* ------------------------------------------------------------------------

\* the most calls of Close that one caller makes
MaxCloses == 2

OpenedFile == [nil |-> FALSE, open |-> TRUE, closes |-> 0]

\* no caller's value of the codec is involved
NoCodec ==
    /\ s = ZeroMessage
    /\ t = ZeroTime
    /\ octets = << >>
    /\ n = 0
    /\ err = "nil"
    /\ ops = << >>

\* the Device after Open and Init: Init has set active and made the channels
InitializedDevice(notify) ==
    [active |-> TRUE, closed |-> "open", cmdPort |-> OpenedFile, notifyPort |-> notify,
     messages |-> << >>, Commands |-> "profile"]

\* goroutines that call Close, and the goroutines of Watch: the loop and
\* the goroutine that it starts to wait for closed
Closers == { "caller", "other" }

Panicked == \E g \in DOMAIN pc : pc[g].at = "panic"

\* os.File.Close: a closed file stays closed and the call fails
FileClose(f) == [nil |-> FALSE, open |-> FALSE, closes |-> f.closes + 1]

FileCloseErr(f) == IF f.open THEN "nil" ELSE "ErrClosed"

At(g, label) == [pc EXCEPT ![g].at = label]

InitClose ==
    /\ orig = [kind |-> "close"]
    /\ NoCodec
    /\ \E notify \in { NilFile, OpenedFile } : device = InitializedDevice(notify)
    /\ modem = << >>
    /\ pc = [g \in Closers \cup { "watch", "waiter" } |->
                [at |-> IF g = "waiter" THEN "idle" ELSE "ready", calls |-> 0, err |-> "nil"]]

\* a caller calls d.Close()
CallClose(g) ==
    /\ ~Panicked
    /\ pc[g].at = "ready"
    /\ pc[g].calls < MaxCloses
    /\ pc' = [pc EXCEPT ![g].at = "Close.active", ![g].calls = @ + 1]
    /\ UNCHANGED << codec, device, modem >>

\* Close: if d.active
CloseTestActive(g) ==
    /\ ~Panicked
    /\ pc[g].at = "Close.active"
    /\ pc' = At(g, IF device.active THEN "Close.closed" ELSE "Close.ports")
    /\ UNCHANGED << codec, device, modem >>

\* Close: d.active = false; close(d.closed).  To close a closed channel
\* panics
CloseChannel(g) ==
    /\ ~Panicked
    /\ pc[g].at = "Close.closed"
    /\ IF device.closed = "open"
       THEN /\ device' = [device EXCEPT !.active = FALSE, !.closed = "closed"]
            /\ pc' = At(g, "Close.ports")
       ELSE /\ device' = [device EXCEPT !.active = FALSE]
            /\ pc' = At(g, "panic")
    /\ UNCHANGED << codec, modem >>

\* Close: the two ports are closed when they are not nil, and the call
\* returns
ClosePorts(g) ==
    /\ ~Panicked
    /\ pc[g].at = "Close.ports"
    /\ LET err1 == IF device.cmdPort.nil THEN "nil" ELSE FileCloseErr(device.cmdPort)
           err2 == IF device.notifyPort.nil THEN "nil" ELSE FileCloseErr(device.notifyPort)
       IN  /\ device' = [device EXCEPT
                  !.cmdPort = IF @.nil THEN @ ELSE FileClose(@),
                  !.notifyPort = IF @.nil THEN @ ELSE FileClose(@)]
           /\ pc' = [pc EXCEPT ![g].at = IF g = "watch" THEN "returned" ELSE "ready",
                               ![g].err = IF err2 # "nil" THEN err2 ELSE err1]
    /\ UNCHANGED << codec, modem >>

\* d.Watch() is called: without a notification port it returns an error,
\* else it starts the goroutine that waits for closed and enters its loop
CallWatch ==
    /\ ~Panicked
    /\ pc["watch"].at = "ready"
    /\ IF device.notifyPort.nil
       THEN pc' = [pc EXCEPT !["watch"].at = "returned",
                             !["watch"].err = "notification port not initialized"]
       ELSE pc' = [pc EXCEPT !["watch"].at = "Watch.select", !["waiter"].at = "Watch.closed"]
    /\ UNCHANGED << codec, device, modem >>

\* the goroutine of Watch: <-d.closed, then the write of KillCmd
WatchKill ==
    /\ ~Panicked
    /\ pc["waiter"].at = "Watch.closed"
    /\ device.closed = "closed"
    /\ pc' = At("waiter", "returned")
    /\ UNCHANGED << codec, device, modem >>

\* the loop of Watch sees closed closed and returns
WatchClosed ==
    /\ ~Panicked
    /\ pc["watch"].at = "Watch.select"
    /\ device.closed = "closed"
    /\ pc' = At("watch", "returned")
    /\ UNCHANGED << codec, device, modem >>

\* the loop of Watch reads: the read fails, as it does on a closed port and
\* may on an open one, and Watch calls d.Close()
WatchReadError ==
    /\ ~Panicked
    /\ pc["watch"].at = "Watch.select"
    /\ pc' = [pc EXCEPT !["watch"].at = "Close.active", !["watch"].calls = @ + 1]
    /\ UNCHANGED << codec, device, modem >>

NextClose ==
    \/ \E g \in Closers : CallClose(g)
    \/ \E g \in Closers \cup { "watch" } : CloseTestActive(g)
    \/ \E g \in Closers \cup { "watch" } : CloseChannel(g)
    \/ \E g \in Closers \cup { "watch" } : ClosePorts(g)
    \/ CallWatch
    \/ WatchKill
    \/ WatchClosed
    \/ WatchReadError

SpecClose == InitClose /\ [][NextClose]_vars

\* C25: Close is a no-op on a closed device: under every interleaving of
\* the calls of Close, that of Watch on a read error included, the channel
\* closed is closed once and no call faults, and no port is closed again.
CloseOnce ==
    orig.kind = "close"
        => /\ ~Panicked
           /\ device.cmdPort.closes <= 1
           /\ device.notifyPort.closes <= 1

\* C27: for every octet sequence Message.ReadFrom returns normally, with a
\* number of bytes n between 0 and the length of the input: it indexes and
\* slices no buffer outside its bounds.
ReadFromTotal ==
    (orig.kind = "pdu" /\ ops = << "ReadFrom" >>)
        => /\ err # "panic"
           /\ 0 <= n
           /\ n <= Len(orig.octets)

\* ------------------------------------------------------------------------
\* at.go, commands.go: the inbox of the modem.  modem holds the message
\* store of the modem (stored, slots [Index, Payload]), the reports +CMTI
\* that wait on the notification port (reports, the indices), the next free
\* index, and the slots that CMGD has removed (deleted).  A message in the
\* channel messages is held as the payload it was decoded from.
\* ------------------------------------------------------------------------

\* the capacity of the channel messages
MessagesCap == 100

\* the longest inbox with payloads of both kinds
MaxMixed == 2

\* the most messages that arrive while the Device is in use
MaxReports == 2

\* a Deliver PDU that decodes, and a PDU of the reserved type
GoodPayload == << 0, 4, 2, 145, 151, 0, 0, 65, 96, 98, 18, 99, 3, 97, 0 >>

BadPayload == << 0, 3 >>

Payloads == { GoodPayload, BadPayload }

\* the error of msg.ReadFrom on the payloads of the store
ReadFromErr == [payload \in Payloads |-> MessageReadFrom(payload).err]

Slots(payloads) == [i \in 1..Len(payloads) |-> [Index |-> i - 1, Payload |-> payloads[i]]]

\* the inboxes: the short ones of every mix, and inboxes of good messages
\* around the capacity of the channel
Inboxes ==
    { Slots(q) : q \in SeqsUpTo(Payloads, MaxMixed) }
    \cup { Slots([i \in 1..k |-> GoodPayload]) : k \in (MessagesCap - 1)..(MessagesCap + 1) }

InitInbox ==
    /\ orig = [kind |-> "inbox"]
    /\ NoCodec
    /\ device = [ZeroDevice EXCEPT !.cmdPort = OpenedFile, !.notifyPort = OpenedFile]
    /\ \E box \in Inboxes :
           modem = [stored |-> box, reports |-> << >>, next |-> Len(box), arrived |-> 0,
                    deleted |-> { }]
    /\ pc = [g \in Closers \cup { "watch", "waiter" } |->
                [at |-> IF g = "caller" THEN "ready" ELSE "idle", calls |-> 0, err |-> "nil",
                 slots |-> << >>, i |-> 0, index |-> 0, received |-> 0]]

\* the modem stores a message that arrives and reports it with +CMTI
NewMessage ==
    /\ ~Panicked
    /\ modem.arrived < MaxReports
    /\ \E payload \in Payloads :
           modem' = [modem EXCEPT
               !.stored = Append(@, [Index |-> modem.next, Payload |-> payload]),
               !.reports = Append(@, modem.next),
               !.next = @ + 1,
               !.arrived = @ + 1]
    /\ UNCHANGED << codec, device, pc >>

\* d.Init(profile): the channels are made, and profile.Init sends its
\* commands of set-up, which the modem accepts (ok) or not
CallInit ==
    /\ pc["caller"].at = "ready"
    /\ ~device.cmdPort.nil /\ ~device.notifyPort.nil
    /\ device' = [device EXCEPT !.active = TRUE, !.closed = "open", !.messages = << >>,
                                !.Commands = "profile"]
    /\ \E ok \in BOOLEAN :
           pc' = IF ok THEN At("caller", "FetchInbox.CMGL")
                 ELSE [pc EXCEPT !["caller"].at = "returned", !["caller"].err = "at init"]
    /\ UNCHANGED << codec, modem >>

\* FetchInbox: slots, err := p.CMGL(MessageFlags.Any)
FetchInboxCMGL ==
    /\ pc["caller"].at = "FetchInbox.CMGL"
    /\ pc' = [pc EXCEPT !["caller"].at = "FetchInbox.range", !["caller"].slots = modem.stored,
                        !["caller"].i = 1]
    /\ UNCHANGED << codec, device, modem >>

\* CMGD(index, DeleteOptions.Index) on the store of the modem
StoreWithout(stored, index) == SelectSeq(stored, LAMBDA sl : sl.Index # index)

Removed(stored, index) == { stored[k] : k \in { j \in 1..Len(stored) : stored[j].Index = index } }

\* FetchInbox: one turn of the loop up to the send: the payload is decoded,
\* and the slot is deleted when it decoded
FetchInboxSlot ==
    /\ pc["caller"].at = "FetchInbox.range"
    /\ LET slots == pc["caller"].slots
           i == pc["caller"].i
       IN  IF i > Len(slots)
           THEN /\ pc' = At("caller", "returned")
                /\ modem' = modem
           ELSE IF ReadFromErr[slots[i].Payload] # "nil"
           THEN /\ pc' = [pc EXCEPT !["caller"].at = "returned",
                                    !["caller"].err = "error while parsing message inbox"]
                /\ modem' = modem
           ELSE /\ pc' = At("caller", "FetchInbox.send")
                /\ modem' = [modem EXCEPT
                       !.stored = StoreWithout(@, slots[i].Index),
                       !.deleted = @ \cup Removed(modem.stored, slots[i].Index)]
    /\ UNCHANGED << codec, device >>

\* FetchInbox: p.dev.messages <- &msg, which waits while the channel is full
FetchInboxSend ==
    /\ pc["caller"].at = "FetchInbox.send"
    /\ Len(device.messages) < MessagesCap
    /\ device' = [device EXCEPT
           !.messages = Append(@, pc["caller"].slots[pc["caller"].i].Payload)]
    /\ pc' = [pc EXCEPT !["caller"].at = "FetchInbox.range", !["caller"].i = @ + 1]
    /\ UNCHANGED << codec, modem >>

\* after Init has returned without error the program starts Watch and a
\* goroutine that receives from IncomingSms()
StartWatch ==
    /\ pc["caller"].at = "returned"
    /\ pc["caller"].err = "nil"
    /\ pc["watch"].at = "idle"
    /\ pc' = [pc EXCEPT !["watch"].at = "ready", !["other"].at = "IncomingSms"]
    /\ UNCHANGED << codec, device, modem >>

\* <-d.IncomingSms()
Receive ==
    /\ pc["other"].at = "IncomingSms"
    /\ Len(device.messages) > 0
    /\ device' = [device EXCEPT !.messages = Tail(@)]
    /\ pc' = [pc EXCEPT !["other"].received = @ + 1]
    /\ UNCHANGED << codec, modem >>

\* the loop of Watch reads the line of a report +CMTI and handleReport
\* parses it
WatchReadReport ==
    /\ ~Panicked
    /\ pc["watch"].at = "Watch.select"
    /\ device.closed = "open"
    /\ Len(modem.reports) > 0
    /\ modem' = [modem EXCEPT !.reports = Tail(@)]
    /\ pc' = [pc EXCEPT !["watch"].at = "handleReport.CMGR",
                        !["watch"].index = Head(modem.reports)]
    /\ UNCHANGED << codec, device >>

\* handleReport, case Reports.Message up to the send: CMGR reads the
\* payload, CMGD deletes the slot, and the payload is decoded
HandleReportMessage ==
    /\ pc["watch"].at = "handleReport.CMGR"
    /\ LET index == pc["watch"].index
           found == Removed(modem.stored, index)
       IN  IF found = { }
           THEN /\ pc' = [pc EXCEPT !["watch"].at = "Watch.select", !["watch"].err = "CMGR"]
                /\ modem' = modem
           ELSE /\ modem' = [modem EXCEPT !.stored = StoreWithout(@, index),
                                          !.deleted = @ \cup found]
                /\ \E sl \in found :
                       IF ReadFromErr[sl.Payload] # "nil"
                       THEN pc' = [pc EXCEPT !["watch"].at = "Watch.select",
                                             !["watch"].err = "ReadFrom"]
                       ELSE pc' = [pc EXCEPT !["watch"].at = "handleReport.send",
                                             !["watch"].slots = << sl >>]
    /\ UNCHANGED << codec, device >>

\* handleReport: d.messages <- &msg
HandleReportSend ==
    /\ pc["watch"].at = "handleReport.send"
    /\ Len(device.messages) < MessagesCap
    /\ device' = [device EXCEPT !.messages = Append(@, pc["watch"].slots[1].Payload)]
    /\ pc' = [pc EXCEPT !["watch"].at = "Watch.select", !["watch"].err = "nil"]
    /\ UNCHANGED << codec, modem >>

InitSteps == CallInit \/ FetchInboxCMGL \/ FetchInboxSlot \/ FetchInboxSend

NextInbox ==
    \/ NewMessage
    \/ InitSteps
    \/ StartWatch
    \/ CallWatch
    \/ Receive
    \/ WatchReadReport
    \/ HandleReportMessage
    \/ HandleReportSend

SpecInbox == InitInbox /\ [][NextInbox]_vars

\* the goroutine that runs Init is scheduled as long as it can take a step
FairSpecInbox == SpecInbox /\ WF_vars(InitSteps)

\* the messages of the deleted slots that are in the channel, were taken
\* from it, or are in the hand of a goroutine at its send
Forwarded ==
    Len(device.messages) + pc["other"].received
    + (IF pc["caller"].at = "FetchInbox.send" THEN 1 ELSE 0)
    + (IF pc["watch"].at = "handleReport.send" THEN 1 ELSE 0)

\* C28: a stored message is deleted from the modem only after it was
\* decoded, and every deleted message is delivered on the channel messages:
\* handleReport and FetchInbox never delete a message whose PDU fails to
\* decode.
DeletedAfterDecoding ==
    orig.kind = "inbox"
        => /\ \A payload \in { sl.Payload : sl \in modem.deleted } :
                  ReadFromErr[payload] = "nil"
           /\ Cardinality(modem.deleted) = Forwarded

\* C30: Device.Init terminates for every number of messages in the inbox
\* of the modem, when no goroutine receives from IncomingSms() before it
\* returns.
InitTerminates == <>(orig.kind = "inbox" => pc["caller"].at = "returned")

\* ------------------------------------------------------------------------
\* at.go, opts.go: Device.Send.  A string that is read from a port or
\* compared by prefix is the sequence of its characters.  On the command
\* port the modem holds the lines it will send (modem.lines, each up to and
\* with its '\r') and what was written to it (modem.written).
\* ------------------------------------------------------------------------

StringOpt(id, description) == [ID |-> id, Description |-> description]

UnknownStringOpt == StringOpt(<< "n", "i", "l" >>, "Unknown")

KillCmd == << "A", "T", "_", "K", "I", "L", "L" >>

NoopCmd == << "A", "T" >>

\* strings.HasPrefix
HasPrefix(str, prefix) ==
    Len(prefix) <= Len(str) /\ SubSeq(str, 1, Len(prefix)) = prefix

\* stringOpts.Resolve: the first entry of the table whose ID is a prefix
RECURSIVE StringOptsResolve(_, _)
StringOptsResolve(opts, str) ==
    IF opts = << >> THEN UnknownStringOpt
    ELSE IF HasPrefix(str, Head(opts).ID) THEN Head(opts)
    ELSE StringOptsResolve(Tail(opts), str)

result ==
    << StringOpt(<< "A", "T" >>, "Noop"),
       StringOpt(<< "O", "K" >>, "Success"),
       StringOpt(<< "C", "O", "N", "N", "E", "C", "T" >>, "Connect"),
       StringOpt(<< "R", "I", "N", "G" >>, "Ringing"),
       StringOpt(<< "N", "O", " ", "C", "A", "R", "R", "I", "E", "R" >>, "No carrier"),
       StringOpt(<< "E", "R", "R", "O", "R" >>, "Error"),
       StringOpt(<< "N", "O", " ", "D", "I", "A", "L", "T", "O", "N", "E" >>, "No dialtone"),
       StringOpt(<< "B", "U", "S", "Y" >>, "Busy"),
       StringOpt(<< "N", "O", " ", "A", "N", "S", "W", "E", "R" >>, "No answer"),
       StringOpt(<< "+", "C", "M", "E", " ", "E", "R", "R", "O", "R", ":" >>, "CME Error"),
       StringOpt(<< "+", "C", "M", "S", " ", "E", "R", "R", "O", "R", ":" >>, "CMS Error"),
       StringOpt(<< "C", "O", "M", "M", "A", "N", "D", " ", "N", "O", "T", " ", "S", "U", "P", "P", "O", "R", "T" >>, "Command is not supported"),
       StringOpt(<< "T", "O", "O", " ", "M", "A", "N", "Y", " ", "P", "A", "R", "A", "M", "E", "T", "E", "R", "S" >>, "Too many parameters"),
       StringOpt(<< "A", "T", "_", "K", "I", "L", "L" >>, "Timeout") >>

FinalResults ==
    [Noop |-> result[1],
     Ok |-> result[2],
     Connect |-> result[3],
     Ring |-> result[4],
     NoCarrier |-> result[5],
     Error |-> result[6],
     NoDialtone |-> result[7],
     Busy |-> result[8],
     NoAnswer |-> result[9],
     CmeError |-> result[10],
     CmsError |-> result[11],
     NotSupported |-> result[12],
     TooManyParameters |-> result[13],
     Timeout |-> result[14]]

WhiteSpace == { " ", "\t", "\n", "\r" }

\* strings.TrimSpace
RECURSIVE TrimSpace(_)
TrimSpace(str) ==
    IF str = << >> THEN str
    ELSE IF Head(str) \in WhiteSpace THEN TrimSpace(Tail(str))
    ELSE IF str[Len(str)] \in WhiteSpace THEN TrimSpace(SubSeq(str, 1, Len(str) - 1))
    ELSE str

\* Device.sanityCheck
SanityCheck(d, initialized) ==
    IF d.cmdPort.nil \/ d.notifyPort.nil THEN "ErrClosed"
    ELSE IF initialized /\ d.Commands = "nil" THEN "ErrNotInitialized"
    ELSE "nil"

\* the loop of Send over the lines that are left: [reply, err, text, lines]
\* with text the message of an error that is made of a line, and lines the
\* lines that are not read.  A read with no line left ends at the deadline.
RECURSIVE SendLoop(_, _)
SendLoop(lines, reply) ==
    IF lines = << >>
    THEN [reply |-> reply, err |-> "ErrDeadlineExceeded", text |-> << >>, lines |-> lines]
    ELSE LET text == TrimSpace(Head(lines))
             opt == StringOptsResolve(result, text)
         IN  IF Len(text) < 1 THEN SendLoop(Tail(lines), reply)
             ELSE IF opt \in { FinalResults.Ok, FinalResults.Noop }
             THEN [reply |-> reply, err |-> "nil", text |-> << >>, lines |-> Tail(lines)]
             ELSE IF opt = FinalResults.Timeout
             THEN [reply |-> reply, err |-> "ErrTimeout", text |-> << >>, lines |-> Tail(lines)]
             ELSE IF opt \in { FinalResults.CmeError, FinalResults.CmsError }
             THEN [reply |-> reply, err |-> "errors.New(text)", text |-> text,
                   lines |-> Tail(lines)]
             ELSE IF opt \in { FinalResults.Error, FinalResults.NotSupported,
                               FinalResults.TooManyParameters, FinalResults.NoCarrier }
             THEN [reply |-> reply, err |-> opt.Description, text |-> << >>,
                   lines |-> Tail(lines)]
             ELSE SendLoop(Tail(lines),
                           (IF Len(reply) > 0 THEN reply \o << "\n" >> ELSE reply) \o text)

\* the function that Send runs under the deadline: the request is written,
\* the first line is read as its echo, and the loop reads the reply
SendBody(req, lines) ==
    IF lines = << >>
    THEN [reply |-> << >>, err |-> "ErrDeadlineExceeded", text |-> << >>, lines |-> lines]
    ELSE IF ~HasPrefix(req, TrimSpace(Head(lines)))
    THEN [reply |-> << >>, err |-> "nil", text |-> << >>, lines |-> Tail(lines)]
    ELSE SendLoop(Tail(lines), << >>)

\* the most lines that the modem answers a request with
MaxLines == 3

CmgdCmd == << "A", "T", "+", "C", "M", "G", "D", "=", "0", ",", "0" >>

Line(text) == << "\n" >> \o text \o << "\r" >>

\* the lines of a modem: the echo of the request, an empty line, final
\* results, a line of information
ReplyLines ==
    { Line(CmgdCmd), Line(<< >>), Line(result[2].ID), Line(KillCmd), Line(result[6].ID),
      Line(result[10].ID \o << " ", "1", "0" >>), Line(<< "^", "R", "S", "S", "I", ":", "9" >>) }

InitSend ==
    /\ NoCodec
    /\ \/ /\ device = InitializedDevice(OpenedFile)
          /\ \E lines \in SeqsUpTo(ReplyLines, MaxLines) :
                 modem = [lines |-> lines, written |-> << >>]
       \/ /\ device \in { InitializedDevice(NilFile),
                          [InitializedDevice(OpenedFile) EXCEPT !.Commands = "nil"] }
          /\ modem = [lines |-> << Line(CmgdCmd), Line(result[2].ID) >>, written |-> << >>]
    /\ orig = [kind |-> "send", req |-> CmgdCmd, lines |-> modem.lines]
    /\ pc = [g \in { "caller" } |->
                [at |-> "ready", req |-> CmgdCmd, reply |-> << >>, err |-> "nil",
                 text |-> << >>]]

\* reply, err = d.Send(req), with withTimeout: after an error of a deadline
\* KillCmd is written to the port
CallSend ==
    /\ pc["caller"].at = "ready"
    /\ IF SanityCheck(device, TRUE) # "nil"
       THEN /\ pc' = [pc EXCEPT !["caller"].at = "returned",
                                !["caller"].err = SanityCheck(device, TRUE)]
            /\ modem' = modem
       ELSE LET r == SendBody(pc["caller"].req, modem.lines)
            IN  /\ pc' = [pc EXCEPT !["caller"].at = "returned", !["caller"].reply = r.reply,
                                    !["caller"].err = r.err, !["caller"].text = r.text]
                /\ modem' = [lines |-> r.lines,
                             written |-> << pc["caller"].req >>
                                 \o (IF r.err = "ErrDeadlineExceeded" THEN << KillCmd >>
                                     ELSE << >>)]
    /\ UNCHANGED << codec, device >>

NextSend == CallSend

SpecSend == InitSend /\ [][NextSend]_vars

\* the lines of the modem are the echo of the request, then lines that
\* are empty or of information, then the line AT_KILL
EndsWithKill(req, lines) ==
    /\ Len(lines) > 1
    /\ TrimSpace(lines[1]) = req
    /\ \E k \in 2..Len(lines) :
          /\ TrimSpace(lines[k]) = KillCmd
          /\ \A j \in 2..(k - 1) : \A e \in { result[x] : x \in 1..Len(result) } :
                 ~HasPrefix(TrimSpace(lines[j]), e.ID)

\* C29: Send returns ErrTimeout whenever the line that ends the reply is
\* AT_KILL: the line is not resolved as Noop or Ok and Send does not
\* succeed.
KillIsTimeout ==
    (orig.kind = "send" /\ pc["caller"].at = "returned"
         /\ SanityCheck(device, TRUE) = "nil" /\ EndsWithKill(orig.req, orig.lines))
        => pc["caller"].err = "ErrTimeout"

====
